---- MODULE Spec2Model ----
(***************************************************************************)
(* A model of the Texas Hold'em rules engine: Deck (core/deck.ts), the     *)
(* hand evaluator (core/hand-evaluator.ts) and GameEngine                  *)
(* (core/game-engine.ts).  Indices into `players` are 0-based as in the    *)
(* source; a TLA+ sequence is 1-based, so players[i] of the source is      *)
(* players[i + 1] here.                                                    *)
(***************************************************************************)
EXTENDS Integers, Sequences, FiniteSets, TLC

VARIABLES
    state,      \* GameEngine.state : GameState
    deck,       \* GameEngine.deck  : Deck.cards (dealt from the end)
    settings,   \* GameEngine.settings : GameSettings
    lastCall,   \* the last public method called and the boolean it returned
    chipsBeforeHand, \* history: the sum of the stacks when startHand last succeeded,
                     \* taken immediately before it ran
    hands       \* history: how many times startHand has succeeded

vars == <<state, deck, settings, lastCall, chipsBeforeHand, hands>>

----------------------------------------------------------------------------
(* Bounds of the model *)

\* settings.maxPlayers handed to the constructor (the roster cap)
MaxPlayers == 3
\* player ids that may ask for a seat are 1..MaxPlayers + 1
\* chips a player is created with are at most MaxChips, and a hand is started
\* only while every stack is within 0..MaxChips
MaxChips == 5
\* settings.smallBlind / settings.bigBlind handed to the constructor
SmallBlindSetting == 1
BigBlindSetting == 2
\* number of random sources the shuffle is run with
NumSeeds == 2
\* hands started at one table
MaxHands == 2

PlayerIds == 1..(MaxPlayers + 1)
\* a stack below the small blind, a stack between the blinds and the minimum
\* raise over them, and a stack that can raise and keep chips behind
ChipChoices == {1, MaxChips - 2, MaxChips}
\* `amount === undefined`
NoAmount == -1
\* raise increments offered by callers: 0..MaxChips and "no amount"
Amounts == (0..MaxChips) \cup {NoAmount}
Actions == {"fold", "check", "call", "raise", "all-in"}
InteractivePhases == {"preflop", "flop", "turn", "river"}

----------------------------------------------------------------------------
(* Generic helpers *)

Min(a, b) == IF a <= b THEN a ELSE b

RECURSIVE SumSeq(_)
SumSeq(s) == IF s = <<>> THEN 0 ELSE Head(s) + SumSeq(Tail(s))

\* s.map(f) for a function f given as [x \in ... |-> ...] is written inline;
\* Range of a sequence
Range(s) == {s[i] : i \in DOMAIN s}

\* the sequence f as an explicit tuple (Array.prototype.map builds a new array)
AsSeq(f) == SubSeq(f, 1, Len(f))

\* the first k elements of s (Array.prototype.slice(0, k))
Take(s, k) == SubSeq(s, 1, Min(k, Len(s)))

----------------------------------------------------------------------------
(* core/deck.ts *)

SUITS == <<"hearts", "diamonds", "clubs", "spades">>
RANKS == <<"2", "3", "4", "5", "6", "7", "8", "9", "10", "J", "Q", "K", "A">>

createDeck ==
    [i \in 1..52 |-> [suit |-> SUITS[((i - 1) \div 13) + 1],
                      rank |-> RANKS[((i - 1) % 13) + 1]]]

\* Math.random() is modelled as a stream of numbers x, x', x'', ... in which
\* each number determines the next; Math.floor(Math.random() * (i + 1)) is
\* then x % (i + 1), some index in 0..i
nextRandom(x) == (x * 75 + 74) % 65537

RECURSIVE fisherYates(_, _, _)
fisherYates(shuffled, i, x) ==
    IF i <= 0 THEN shuffled
    ELSE LET r == nextRandom(x)
             j == r % (i + 1)
             swapped == [shuffled EXCEPT ![i + 1] = shuffled[j + 1],
                                         ![j + 1] = shuffled[i + 1]]
         IN  fisherYates(swapped, i - 1, r)

\* shuffleDeck(deck) with the random stream started at `seed`
shuffleDeck(d, seed) == fisherYates(d, Len(d) - 1, seed)

\* the orderings `new Deck()` and `reset()` may produce in this model
ShuffleOutcomes == {shuffleDeck(createDeck, seed) : seed \in 0..(NumSeeds - 1)}

\* Deck.deal(): cards.pop(); null on an empty deck
dealCard(d) == IF d = <<>> THEN <<>> ELSE <<d[Len(d)]>>

\* a deal that reads the top card and leaves it on the deck
dealRest_cardKept(d) == d

dealRest(d) == IF d = <<>> THEN <<>> ELSE SubSeq(d, 1, Len(d) - 1)
\* Deck.burn()
burn(d) == dealRest(d)

\* Deck.dealMultiple(count): [cards, rest], the cards returned and the cards
\* left
RECURSIVE dealMultiple(_, _)
dealMultiple(d, count) ==
    IF count <= 0 THEN [cards |-> <<>>, rest |-> d]
    ELSE LET m == dealMultiple(dealRest(d), count - 1)
         IN  [cards |-> dealCard(d) \o m.cards, rest |-> m.rest]

RANK_VALUES ==
    [r \in Range(RANKS) |-> (CHOOSE i \in DOMAIN RANKS : RANKS[i] = r) + 1]

\* getRankValue(rank): "2" -> 2, ..., "10" -> 10, J -> 11, Q -> 12, K -> 13,
\* A -> 14
getRankValue(rank) == RANK_VALUES[rank]

----------------------------------------------------------------------------
(* core/hand-evaluator.ts *)

HAND_RANK_VALUES_straightOverFlush(rank) ==
    CASE rank = "royal-flush" -> 10 [] rank = "straight-flush" -> 9
      [] rank = "four-of-a-kind" -> 8 [] rank = "full-house" -> 7
      [] rank = "flush" -> 5 [] rank = "straight" -> 6
      [] rank = "three-of-a-kind" -> 4 [] rank = "two-pair" -> 3
      [] rank = "one-pair" -> 2 [] rank = "high-card" -> 1

HAND_RANK_VALUES(rank) ==
    CASE rank = "royal-flush" -> 10 [] rank = "straight-flush" -> 9
      [] rank = "four-of-a-kind" -> 8 [] rank = "full-house" -> 7
      [] rank = "flush" -> 6 [] rank = "straight" -> 5
      [] rank = "three-of-a-kind" -> 4 [] rank = "two-pair" -> 3
      [] rank = "one-pair" -> 2 [] rank = "high-card" -> 1

\* s with x put in front of the first element whose key is not above x's;
\* keyed elements are records [k, v], s is sorted by descending k
insertDesc(x, s) ==
    LET before == Cardinality({j \in DOMAIN s : s[j].k > x.k})
    IN  SubSeq(s, 1, before) \o <<x>> \o SubSeq(s, before + 1, Len(s))

\* Array.prototype.sort with a comparator (a, b) => key(b) - key(a): a stable
\* sort of the keyed elements by descending key
RECURSIVE sortDesc(_)
sortDesc(s) ==
    IF s = <<>> THEN <<>> ELSE insertDesc(Head(s), sortDesc(Tail(s)))

RECURSIVE unkey(_)
unkey(s) == IF s = <<>> THEN <<>> ELSE <<Head(s).v>> \o unkey(Tail(s))

\* cards.map((c) => getRankValue(c.rank))
RECURSIVE cardValues(_)
cardValues(cards) ==
    IF cards = <<>> THEN <<>>
    ELSE <<getRankValue(Head(cards).rank)>> \o cardValues(Tail(cards))

RECURSIVE keyCards(_)
keyCards(cards) ==
    IF cards = <<>> THEN <<>>
    ELSE <<[k |-> getRankValue(Head(cards).rank), v |-> Head(cards)]>>
         \o keyCards(Tail(cards))

\* cards.sort((a, b) => getRankValue(b.rank) - getRankValue(a.rank))
sortCardsDesc(cards) == unkey(sortDesc(keyCards(cards)))

\* the keys of a Map filled element by element, in insertion order
RECURSIVE keysInOrder(_)
keysInOrder(ks) ==
    IF ks = <<>> THEN <<>>
    ELSE LET init == SubSeq(ks, 1, Len(ks) - 1)
             last == ks[Len(ks)]
         IN  IF last \in Range(init) THEN keysInOrder(init)
             ELSE Append(keysInOrder(init), last)

RECURSIVE cardRanks(_)
cardRanks(cards) ==
    IF cards = <<>> THEN <<>> ELSE <<Head(cards).rank>> \o cardRanks(Tail(cards))

RECURSIVE cardSuits(_)
cardSuits(cards) ==
    IF cards = <<>> THEN <<>> ELSE <<Head(cards).suit>> \o cardSuits(Tail(cards))

\* groupByRank(cards).get(rank)
byRankGet(cards, rank) == SelectSeq(cards, LAMBDA c : c.rank = rank)
\* groupBySuit(cards).get(suit)
bySuitGet(cards, suit) == SelectSeq(cards, LAMBDA c : c.suit = suit)

RECURSIVE countEntries(_, _)
countEntries(cards, ranks) ==
    IF ranks = <<>> THEN <<>>
    ELSE LET count == Len(byRankGet(cards, Head(ranks)))
             value == getRankValue(Head(ranks))
         IN  <<[k |-> count * 100 + value,
                v |-> [rank |-> Head(ranks), count |-> count, value |-> value]]>>
             \o countEntries(cards, Tail(ranks))

\* the rankCounts array of evaluateHand: one entry [rank, count, value] per
\* rank present, sorted by (b.count - a.count || b.value - a.value)
rankCounts(cards) ==
    unkey(sortDesc(countEntries(cards, keysInOrder(cardRanks(cards)))))

RECURSIVE keyValues(_)
keyValues(vs) ==
    IF vs = <<>> THEN <<>>
    ELSE <<[k |-> Head(vs), v |-> Head(vs)]>> \o keyValues(Tail(vs))

\* getStraightHighCard: the high card value of a straight, 0 for null
getStraightHighCard(cards) ==
    LET values == unkey(sortDesc(keyValues(keysInOrder(cardValues(cards)))))
        has == Range(values)
        starts == {i \in 1..(Len(values) - 4) :
                      \A j \in 0..3 : values[i + j] - values[i + j + 1] = 1}
    IN  IF {14, 2, 3, 4, 5} \subseteq has THEN 5
        ELSE IF starts = {} THEN 0
        ELSE values[CHOOSE i \in starts : \A k \in starts : i <= k]

\* the suits holding 5 or more of the cards, in Map iteration order
flushSuits(cards) ==
    SelectSeq(keysInOrder(cardSuits(cards)),
              LAMBDA s : Len(bySuitGet(cards, s)) >= 5)

\* getFlushCards: <<>> for null
getFlushCards(cards) ==
    LET suits == flushSuits(cards)
    IN  IF suits = <<>> THEN <<>>
        ELSE Take(sortCardsDesc(bySuitGet(cards, suits[1])), 5)

\* values.find((x) => x.value === v) for each v of vs, skipping misses
RECURSIVE findByValues(_, _)
findByValues(cards, vs) ==
    IF vs = <<>> THEN <<>>
    ELSE LET hit == SelectSeq(cards, LAMBDA c : getRankValue(c.rank) = Head(vs))
             rest == findByValues(cards, Tail(vs))
         IN  IF hit = <<>> THEN rest ELSE <<hit[1]>> \o rest

straightValues(highCard) ==
    IF highCard = 5 THEN <<5, 4, 3, 2, 14>>
    ELSE <<highCard, highCard - 1, highCard - 2, highCard - 3, highCard - 4>>

\* getStraightFlushCards: [cards, highCard], highCard = 0 for null
getStraightFlushCards(cards) ==
    LET suits == SelectSeq(flushSuits(cards),
                     LAMBDA s : getStraightHighCard(bySuitGet(cards, s)) # 0)
    IN  IF suits = <<>> THEN [cards |-> <<>>, highCard |-> 0]
        ELSE LET suitCards == bySuitGet(cards, suits[1])
                 highCard == getStraightHighCard(suitCards)
             IN  [cards |-> findByValues(suitCards, straightValues(highCard)),
                  highCard |-> highCard]

\* a HandResult; its description (a text for display) is left out
HandResult(rank, cards, kickers) ==
    [rank |-> rank, rankValue |-> HAND_RANK_VALUES(rank),
     cards |-> cards, kickers |-> kickers]

\* evaluateHand(cards) for 5 or more cards (fewer throws)
evaluateHand(cards) ==
    LET counts == rankCounts(cards)
        straightFlush == getStraightFlushCards(cards)
        fours == SelectSeq(counts, LAMBDA r : r.count = 4)
        threes == SelectSeq(counts, LAMBDA r : r.count = 3)
        hasThree == threes # <<>>
        pairs == SelectSeq(counts, LAMBDA r :
                     r.count >= 2 /\ (hasThree => r.rank # threes[1].rank))
        flushCards == getFlushCards(cards)
        straightHighCard == getStraightHighCard(cards)
        pairsOnly == SelectSeq(counts, LAMBDA r : r.count = 2)
        without(rs) == sortCardsDesc(SelectSeq(cards, LAMBDA c : c.rank \notin rs))
    IN  IF straightFlush.highCard # 0 THEN
            HandResult(IF straightFlush.highCard = 14 THEN "royal-flush"
                       ELSE "straight-flush",
                       straightFlush.cards, <<straightFlush.highCard>>)
        ELSE IF fours # <<>> THEN
            LET kicker == without({fours[1].rank})[1]
            IN  HandResult("four-of-a-kind",
                           Append(byRankGet(cards, fours[1].rank), kicker),
                           <<fours[1].value, getRankValue(kicker.rank)>>)
        ELSE IF hasThree /\ pairs # <<>> THEN
            HandResult("full-house",
                       Take(byRankGet(cards, threes[1].rank), 3)
                           \o Take(byRankGet(cards, pairs[1].rank), 2),
                       <<threes[1].value, pairs[1].value>>)
        ELSE IF flushCards # <<>> THEN
            HandResult("flush", flushCards, cardValues(flushCards))
        ELSE IF straightHighCard # 0 THEN
            HandResult("straight",
                       findByValues(sortCardsDesc(cards),
                                    straightValues(straightHighCard)),
                       <<straightHighCard>>)
        ELSE IF hasThree THEN
            LET kickers == Take(without({threes[1].rank}), 2)
            IN  HandResult("three-of-a-kind",
                           Take(byRankGet(cards, threes[1].rank), 3) \o kickers,
                           <<threes[1].value>> \o cardValues(kickers))
        ELSE IF Len(pairsOnly) >= 2 THEN
            LET kicker == without({pairsOnly[1].rank, pairsOnly[2].rank})[1]
            IN  HandResult("two-pair",
                           Take(byRankGet(cards, pairsOnly[1].rank), 2)
                               \o Take(byRankGet(cards, pairsOnly[2].rank), 2)
                               \o <<kicker>>,
                           <<pairsOnly[1].value, pairsOnly[2].value,
                             getRankValue(kicker.rank)>>)
        ELSE IF Len(pairsOnly) = 1 THEN
            LET kickers == Take(without({pairsOnly[1].rank}), 3)
            IN  HandResult("one-pair",
                           Take(byRankGet(cards, pairsOnly[1].rank), 2) \o kickers,
                           <<pairsOnly[1].value>> \o cardValues(kickers))
        ELSE
            LET highCards == Take(sortCardsDesc(cards), 5)
            IN  HandResult("high-card", highCards, cardValues(highCards))

compareHands_firstKickerOnly(hand1, hand2) ==
    IF hand1.rankValue # hand2.rankValue
    THEN hand1.rankValue - hand2.rankValue
    ELSE hand1.kickers[1] - hand2.kickers[1]

\* compareHands(hand1, hand2): > 0 if hand1 wins, < 0 if hand2 wins, 0 on a tie
compareHands(hand1, hand2) ==
    IF hand1.rankValue # hand2.rankValue
    THEN hand1.rankValue - hand2.rankValue
    ELSE LET n == Min(Len(hand1.kickers), Len(hand2.kickers))
             diffs == {i \in 1..n : hand1.kickers[i] # hand2.kickers[i]}
         IN  IF diffs = {} THEN 0
             ELSE LET i == CHOOSE d \in diffs : \A e \in diffs : d <= e
                  IN  hand1.kickers[i] - hand2.kickers[i]

RECURSIVE evaluateAll(_)
evaluateAll(playerHands) ==
    IF playerHands = <<>> THEN <<>>
    ELSE LET h == Head(playerHands)
         IN  <<[playerId |-> h.playerId,
                hand |-> evaluateHand(h.cards \o h.communityCards)]>>
             \o evaluateAll(Tail(playerHands))

\* r put into s, which is sorted best hand first, behind every hand that is
\* not worse than r's
insertResult(r, s) ==
    LET before == Cardinality({j \in DOMAIN s : compareHands(s[j].hand, r.hand) >= 0})
    IN  SubSeq(s, 1, before) \o <<r>> \o SubSeq(s, before + 1, Len(s))

\* results.sort((a, b) => compareHands(b.hand, a.hand)): stable, best first
RECURSIVE sortResults(_)
sortResults(results) ==
    IF results = <<>> THEN <<>>
    ELSE insertResult(results[Len(results)],
                      sortResults(SubSeq(results, 1, Len(results) - 1)))

\* the tail of findWinners returning the first result only
bestResults_firstOnly(results) == Take(results, 1)

\* the tail of findWinners: of the sorted results, those that tie with the
\* first (results.filter((r) => compareHands(r.hand, bestHand) === 0))
bestResults(results) ==
    IF results = <<>> THEN <<>>
    ELSE SelectSeq(results,
             LAMBDA r : compareHands(r.hand, results[1].hand) = 0)

\* findWinners(playerHands): playerHands is a sequence of
\* [playerId, cards, communityCards]; the result a sequence of [playerId, hand]
findWinners(playerHands) == bestResults(sortResults(evaluateAll(playerHands)))

----------------------------------------------------------------------------
(* core/game-engine.ts: construction.  An engine `this` is the record       *)
(* [state, deck, settings] of the GameEngine object's three fields.         *)

\* createPlayer(id, name, seatIndex, chips): name, avatar and seatIndex are
\* never read by the engine and are left out
createPlayer(id, chips) ==
    [id |-> id, chips |-> chips, cards |-> <<>>, bet |-> 0, totalBet |-> 0,
     folded |-> FALSE, isAllIn |-> FALSE, isActive |-> TRUE, isTurn |-> FALSE,
     isDealer |-> FALSE, isSmallBlind |-> FALSE, isBigBlind |-> FALSE,
     isConnected |-> TRUE, hasActedThisRound |-> FALSE,
     joinedMidGame |-> FALSE]

\* createInitialGameState(settings); the optional winners and lastAction are
\* <<>> while undefined, lastAction is <<a>> once set
createInitialGameState(s) ==
    [phase |-> "waiting", players |-> <<>>, communityCards |-> <<>>,
     pots |-> <<[amount |-> 0, eligiblePlayers |-> <<>>]>>,
     currentBet |-> 0, minRaise |-> s.bigBlind, dealerIndex |-> 0,
     currentPlayerIndex |-> 0, smallBlind |-> s.smallBlind,
     bigBlind |-> s.bigBlind, winners |-> <<>>, lastAction |-> <<>>]

\* DEFAULT_SETTINGS scaled to the bounds of the model
ModelSettings(maxPlayers) ==
    [maxPlayers |-> maxPlayers, smallBlind |-> SmallBlindSetting,
     bigBlind |-> BigBlindSetting, startingChips |-> MaxChips]

This == [state |-> state, deck |-> deck, settings |-> settings]

\* index (0-based) of the player with this id, -1 if none (findIndex)
findIndex(players, id) ==
    LET hits == {i \in DOMAIN players : players[i].id = id}
    IN  IF hits = {} THEN -1
        ELSE (CHOOSE i \in hits : \A j \in hits : i <= j) - 1

hasPlayer(players, id) == findIndex(players, id) # -1

\* players.find((p) => p.id === id), for an id that is seated
findPlayer(players, id) == players[findIndex(players, id) + 1]

notFolded(players) == SelectSeq(players, LAMBDA p : ~p.folded)
ids(players) == AsSeq([i \in DOMAIN players |-> players[i].id])
totalPot(pots) == SumSeq(AsSeq([i \in DOMAIN pots |-> pots[i].amount]))

----------------------------------------------------------------------------
(* seat arithmetic *)

\* findNextActivePlayer(fromIndex)
findNextActivePlayer(g, fromIndex) ==
    LET players == g.players
        n == Len(players)
        at(k) == (fromIndex + 1 + k) % n
        hits == {k \in 0..(n - 1) :
                    LET p == players[at(k) + 1]
                    IN  ~p.folded /\ p.chips > 0 /\ p.isConnected}
    IN  IF hits = {} THEN fromIndex
        ELSE at(CHOOSE k \in hits : \A j \in hits : k <= j)

\* getActivePlayerAt(index) # null
hasActivePlayerAt(g, index) ==
    (index + 1) \in DOMAIN g.players /\ ~g.players[index + 1].folded

\* setCurrentPlayerTurn()
setCurrentPlayerTurn(g) ==
    LET cur == g.currentPlayerIndex + 1
    IN  [g EXCEPT !.players =
            AsSeq([i \in DOMAIN g.players |->
                [g.players[i] EXCEPT !.isTurn =
                    i = cur /\ ~g.players[i].folded /\ ~g.players[i].isAllIn]])]

\* advanceToNextPlayer that moves on by one seat, whoever sits there
advanceToNextPlayer_oneSeat(g) ==
    setCurrentPlayerTurn(
        [g EXCEPT !.currentPlayerIndex = (@ + 1) % Len(g.players)])

\* advanceToNextPlayer(): the do-while steps at least once and at most
\* players.length times
advanceToNextPlayer(g) ==
    LET n == Len(g.players)
        at(k) == (g.currentPlayerIndex + k) % n
        stops == {k \in 1..n :
                     k = n \/ ~(g.players[at(k) + 1].folded
                                \/ g.players[at(k) + 1].isAllIn)}
        steps == CHOOSE k \in stops : \A j \in stops : k <= j
    IN  setCurrentPlayerTurn([g EXCEPT !.currentPlayerIndex = at(steps)])

----------------------------------------------------------------------------
(* roster operations; each returns [ok, this]: the boolean returned and the *)
(* engine afterwards                                                        *)

\* addPlayer that seats a player the same way whatever the phase
addPlayer_dealtInAtOnce(t, player) ==
    IF Len(t.state.players) >= t.settings.maxPlayers
    THEN [ok |-> FALSE, this |-> t]
    ELSE IF hasPlayer(t.state.players, player.id) THEN [ok |-> FALSE, this |-> t]
    ELSE [ok |-> TRUE,
          this |-> [t EXCEPT !.state.players = Append(@, player),
                             !.state.pots[1].eligiblePlayers =
                                 Append(@, player.id)]]

\* addPlayer(player)
addPlayer(t, player) ==
    LET g == t.state
        isGameInProgress == g.phase # "waiting"
        seated == IF isGameInProgress
                  THEN [player EXCEPT !.folded = TRUE, !.joinedMidGame = TRUE,
                                      !.cards = <<>>, !.bet = 0, !.totalBet = 0,
                                      !.isActive = FALSE, !.isTurn = FALSE]
                  ELSE player
        pushed == [g EXCEPT !.players = Append(@, seated)]
    IN  IF Len(g.players) >= t.settings.maxPlayers THEN [ok |-> FALSE, this |-> t]
        ELSE IF hasPlayer(g.players, player.id) THEN [ok |-> FALSE, this |-> t]
        ELSE [ok |-> TRUE,
              this |-> [t EXCEPT !.state =
                  IF isGameInProgress THEN pushed
                  ELSE [pushed EXCEPT !.pots[1].eligiblePlayers =
                                          Append(@, player.id)]]]

\* removePlayer that leaves the pots as they are
removePlayer_potsKept(t, playerId) ==
    IF ~hasPlayer(t.state.players, playerId) THEN [ok |-> FALSE, this |-> t]
    ELSE [ok |-> TRUE,
          this |-> [t EXCEPT !.state.players =
                        SelectSeq(@, LAMBDA p : p.id # playerId)]]

\* removePlayer(playerId)
removePlayer(t, playerId) ==
    LET g == t.state
    IN  IF ~hasPlayer(g.players, playerId) THEN [ok |-> FALSE, this |-> t]
        ELSE [ok |-> TRUE,
              this |-> [t EXCEPT !.state =
                  [g EXCEPT
                      !.players = SelectSeq(@, LAMBDA p : p.id # playerId),
                      !.pots = AsSeq([k \in DOMAIN g.pots |->
                          [g.pots[k] EXCEPT !.eligiblePlayers =
                              SelectSeq(@, LAMBDA id : id # playerId)]])]]]

\* resetForNextHand that prunes every player without chips
resetForNextHand_chipsOnly(t) ==
    [t EXCEPT !.state =
        [t.state EXCEPT
            !.players = SelectSeq(@, LAMBDA p : p.chips > 0),
            !.phase = "waiting"]]

\* resetForNextHand()
resetForNextHand(t) ==
    [t EXCEPT !.state =
        [t.state EXCEPT
            !.players = SelectSeq(@, LAMBDA p : p.chips > 0 \/ ~p.isConnected),
            !.phase = "waiting"]]

\* tipPlayer without the test of the tipper's stack
tipPlayer_unfunded(t, fromId, toId, amount) ==
    LET g == t.state
        from == findIndex(g.players, fromId) + 1
        to == findIndex(g.players, toId) + 1
        taken == [g.players EXCEPT ![from].chips = @ - amount]
        given == [taken EXCEPT ![to].chips = @ + amount]
    IN  IF amount <= 0 THEN [ok |-> FALSE, this |-> t]
        ELSE IF from = 0 \/ to = 0 THEN [ok |-> FALSE, this |-> t]
        ELSE [ok |-> TRUE, this |-> [t EXCEPT !.state.players = given]]

\* tipPlayer(fromId, toId, amount); `-=` then `+=`, so a tip to oneself
\* leaves the stack as it was
tipPlayer(t, fromId, toId, amount) ==
    LET g == t.state
        from == findIndex(g.players, fromId) + 1
        to == findIndex(g.players, toId) + 1
        taken == [g.players EXCEPT ![from].chips = @ - amount]
        given == [taken EXCEPT ![to].chips = @ + amount]
    IN  IF amount <= 0 THEN [ok |-> FALSE, this |-> t]
        ELSE IF from = 0 \/ to = 0 THEN [ok |-> FALSE, this |-> t]
        ELSE IF g.players[from].chips < amount THEN [ok |-> FALSE, this |-> t]
        ELSE [ok |-> TRUE, this |-> [t EXCEPT !.state.players = given]]

\* addChipsToAll that credits every seated player, connected or not
addChipsToAll_everyone(t, amount) ==
    LET players == t.state.players
    IN  IF amount <= 0 THEN t
        ELSE [t EXCEPT
                 !.state.players = AsSeq([i \in DOMAIN players |->
                     [players[i] EXCEPT !.chips = @ + amount]]),
                 !.settings.startingChips = @ + amount]

\* addChipsToAll(amount)
addChipsToAll(t, amount) ==
    LET players == t.state.players
    IN  IF amount <= 0 THEN t
        ELSE [t EXCEPT
                 !.state.players = AsSeq([i \in DOMAIN players |->
                     IF players[i].isConnected
                     THEN [players[i] EXCEPT !.chips = @ + amount]
                     ELSE players[i]]),
                 !.settings.startingChips = @ + amount]

----------------------------------------------------------------------------
(* startHand *)

\* postBlind that charges the blind in full, whatever the stack
postBlind_inFull(g, playerIndex, amount, isSmallBlind) ==
    IF ~hasActivePlayerAt(g, playerIndex) THEN g
    ELSE [g EXCEPT
             !.players[playerIndex + 1] =
                 [@ EXCEPT !.chips = @ - amount, !.bet = amount,
                           !.totalBet = amount,
                           !.isSmallBlind = IF isSmallBlind THEN TRUE ELSE @,
                           !.isBigBlind = IF isSmallBlind THEN @ ELSE TRUE],
             !.pots[1].amount = @ + amount]

\* postBlind(playerIndex, amount, isSmallBlind)
postBlind(g, playerIndex, amount, isSmallBlind) ==
    IF ~hasActivePlayerAt(g, playerIndex) THEN g
    ELSE LET i == playerIndex + 1
             player == g.players[i]
             actualAmount == Min(amount, player.chips)
         IN  [g EXCEPT
                 !.players[i] =
                     [player EXCEPT
                         !.chips = @ - actualAmount,
                         !.bet = actualAmount,
                         !.totalBet = actualAmount,
                         !.isSmallBlind = IF isSmallBlind THEN TRUE ELSE @,
                         !.isBigBlind = IF isSmallBlind THEN @ ELSE TRUE,
                         !.isAllIn = IF player.chips - actualAmount = 0
                                     THEN TRUE ELSE @],
                 !.pots[1].amount = @ + actualAmount]

\* postBlinds(): both indices are computed before either blind is posted
postBlinds(t) ==
    LET g == t.state
        headsUp == Len(notFolded(g.players)) = 2
        sbIndex == IF headsUp THEN g.dealerIndex
                   ELSE findNextActivePlayer(g, g.dealerIndex)
        bbIndex == findNextActivePlayer(g, sbIndex)
        sbPosted == postBlind(g, sbIndex, t.settings.smallBlind, TRUE)
        bbPosted == postBlind(sbPosted, bbIndex, t.settings.bigBlind, FALSE)
    IN  [t EXCEPT !.state = [bbPosted EXCEPT !.currentBet = t.settings.bigBlind]]

\* one deck.deal() for each player position of `order`, in order
RECURSIVE dealTo(_, _)
dealTo(t, order) ==
    IF order = <<>> THEN t
    ELSE dealTo([t EXCEPT !.deck = dealRest(@),
                          !.state.players[Head(order)].cards =
                              @ \o dealCard(t.deck)],
                Tail(order))

\* dealHoleCards(): two rounds over the non-folded players in roster order
dealHoleCards(t) ==
    LET players == t.state.players
        n == Len(players)
        positions == [i \in 1..n |-> i]
        active == SelectSeq(positions, LAMBDA i : ~players[i].folded)
    IN  dealTo(t, active \o active)

\* the test on activePlayers.length that lets any single player start a hand
enoughPlayers_one(activePlayers) == Len(activePlayers) >= 1

\* the negation of `activePlayers.length < 2`, the only `return false` of
\* startHand
enoughPlayers(activePlayers) == Len(activePlayers) >= 2

\* startHand(); newDeck is the ordering deck.reset() shuffles to
startHand(t, newDeck) ==
    LET g == t.state
        activePlayers ==
            SelectSeq(g.players, LAMBDA p : p.chips > 0 /\ p.isConnected)
        resetPlayers ==
            AsSeq([i \in DOMAIN g.players |->
                [g.players[i] EXCEPT
                    !.cards = <<>>, !.bet = 0, !.totalBet = 0,
                    !.folded = g.players[i].chips <= 0
                               \/ ~g.players[i].isConnected,
                    !.isAllIn = FALSE, !.isTurn = FALSE, !.isDealer = FALSE,
                    !.isSmallBlind = FALSE, !.joinedMidGame = FALSE,
                    !.isBigBlind = FALSE, !.hasActedThisRound = FALSE]])
        reset == [g EXCEPT
                     !.players = resetPlayers,
                     !.communityCards = <<>>,
                     !.pots = <<[amount |-> 0,
                                 eligiblePlayers |-> ids(activePlayers)]>>,
                     !.currentBet = 0,
                     !.minRaise = t.settings.bigBlind,
                     !.winners = <<>>,
                     !.lastAction = <<>>]
        moved == [reset EXCEPT
                     !.dealerIndex = findNextActivePlayer(reset, reset.dealerIndex)]
        button == IF hasActivePlayerAt(moved, moved.dealerIndex)
                  THEN [moved EXCEPT !.players[moved.dealerIndex + 1].isDealer = TRUE]
                  ELSE moved
        dealt == dealHoleCards(postBlinds([t EXCEPT !.state = button,
                                                    !.deck = newDeck]))
        preflop == [dealt.state EXCEPT !.phase = "preflop"]
        bigBlindIndex ==
            findNextActivePlayer(preflop,
                findNextActivePlayer(preflop, preflop.dealerIndex))
        first == [preflop EXCEPT
                     !.currentPlayerIndex =
                         findNextActivePlayer(preflop, bigBlindIndex)]
    IN  IF ~enoughPlayers(activePlayers) THEN [ok |-> FALSE, this |-> t]
        ELSE [ok |-> TRUE,
              this |-> [dealt EXCEPT !.state = setCurrentPlayerTurn(first)]]

----------------------------------------------------------------------------
(* legality queries; `player` is a Player record, g a GameState *)

\* canCheck with the comparison turned round
canCheck_atMost(g, player) == player.bet <= g.currentBet

canCheck(g, player) == player.bet >= g.currentBet

canCall(g, player) == player.bet < g.currentBet /\ player.chips > 0

\* canRaise without the upper limit on a stated amount
canRaise_noUpperLimit(g, player, amount) ==
    LET minRaiseIncrement == g.minRaise
        maxRaiseIncrement == player.chips + player.bet - g.currentBet
    IN  IF amount # NoAmount
        THEN amount >= minRaiseIncrement
        ELSE maxRaiseIncrement >= minRaiseIncrement

\* canRaise(player, amount); amount = NoAmount is the call without amount
canRaise(g, player, amount) ==
    LET minRaiseIncrement == g.minRaise
        maxRaiseIncrement == player.chips + player.bet - g.currentBet
    IN  IF amount # NoAmount
        THEN amount >= minRaiseIncrement /\ amount <= maxRaiseIncrement
        ELSE maxRaiseIncrement >= minRaiseIncrement

\* getValidActions(playerId), as a set
getValidActions(g, playerId) ==
    IF ~hasPlayer(g.players, playerId) THEN {}
    ELSE LET player == findPlayer(g.players, playerId)
         IN  IF player.folded \/ player.isAllIn THEN {}
             ELSE {"fold"}
                  \cup (IF canCheck(g, player) THEN {"check"} ELSE {})
                  \cup (IF canCall(g, player) THEN {"call"} ELSE {})
                  \cup (IF canRaise(g, player, NoAmount) THEN {"raise"} ELSE {})
                  \cup (IF player.chips > 0 THEN {"all-in"} ELSE {})

\* getMinRaise()
getMinRaise(g) == g.minRaise

\* getMaxRaise(playerId)
getMaxRaise(g, playerId) ==
    IF ~hasPlayer(g.players, playerId) THEN 0
    ELSE LET player == findPlayer(g.players, playerId)
         IN  player.chips + player.bet - g.currentBet

\* getCallAmount(playerId)
getCallAmount(g, playerId) ==
    IF ~hasPlayer(g.players, playerId) THEN 0
    ELSE LET player == findPlayer(g.players, playerId)
         IN  Min(g.currentBet - player.bet, player.chips)

----------------------------------------------------------------------------
(* action handlers; i is the position of the acting player in g.players *)

\* handleFold that takes the turn away but leaves the player in the hand
handleFold_stillIn(g, i) ==
    [g EXCEPT
        !.players[i].isTurn = FALSE,
        !.pots = AsSeq([k \in DOMAIN g.pots |->
                     [g.pots[k] EXCEPT !.eligiblePlayers =
                         SelectSeq(@, LAMBDA id : id # g.players[i].id)]])]

handleFold(g, i) ==
    [g EXCEPT
        !.players[i].folded = TRUE,
        !.players[i].isTurn = FALSE,
        !.pots = AsSeq([k \in DOMAIN g.pots |->
                     [g.pots[k] EXCEPT !.eligiblePlayers =
                         SelectSeq(@, LAMBDA id : id # g.players[i].id)]])]

handleCheck(g, i) == [g EXCEPT !.players[i].isTurn = FALSE]

\* handleCall that moves the call into the bet and the pot but leaves the
\* stack as it was
handleCall_keepsChips(g, i) ==
    LET player == g.players[i]
        callAmount == Min(g.currentBet - player.bet, player.chips)
    IN  [g EXCEPT
            !.players[i] =
                [player EXCEPT
                    !.bet = @ + callAmount,
                    !.totalBet = @ + callAmount,
                    !.isAllIn = IF player.chips - callAmount = 0 THEN TRUE ELSE @,
                    !.isTurn = FALSE],
            !.pots[1].amount = @ + callAmount]

handleCall(g, i) ==
    LET player == g.players[i]
        callAmount == Min(g.currentBet - player.bet, player.chips)
    IN  [g EXCEPT
            !.players[i] =
                [player EXCEPT
                    !.chips = @ - callAmount,
                    !.bet = @ + callAmount,
                    !.totalBet = @ + callAmount,
                    !.isAllIn = IF player.chips - callAmount = 0 THEN TRUE ELSE @,
                    !.isTurn = FALSE],
            !.pots[1].amount = @ + callAmount]

handleRaise(g, i, amount) ==
    LET player == g.players[i]
        totalBet == g.currentBet + amount
        raiseAmount == totalBet - player.bet
    IN  [g EXCEPT
            !.players[i] =
                [player EXCEPT
                    !.chips = @ - raiseAmount,
                    !.bet = totalBet,
                    !.totalBet = @ + raiseAmount,
                    !.isAllIn = IF player.chips - raiseAmount = 0 THEN TRUE ELSE @,
                    !.isTurn = FALSE],
            !.pots[1].amount = @ + raiseAmount,
            !.minRaise = amount,
            !.currentBet = totalBet]

handleAllIn(g, i) ==
    LET player == g.players[i]
        allInAmount == player.chips
        newBet == player.bet + allInAmount
        raise == newBet - g.currentBet
    IN  [g EXCEPT
            !.minRaise = IF newBet > g.currentBet /\ raise >= g.minRaise
                         THEN raise ELSE @,
            !.currentBet = IF newBet > g.currentBet THEN newBet ELSE @,
            !.players[i] =
                [player EXCEPT
                    !.chips = 0,
                    !.bet = newBet,
                    !.totalBet = @ + allInAmount,
                    !.isAllIn = TRUE,
                    !.isTurn = FALSE],
            !.pots[1].amount = @ + allInAmount]

\* the loop of the raise branch left out
resetOthersActed_skipped(g, i) == g

\* the loop that re-opens the action: every other non-folded, non-all-in
\* player's hasActedThisRound becomes false
resetOthersActed(g, i) ==
    [g EXCEPT !.players =
        AsSeq([k \in DOMAIN g.players |->
            IF k # i /\ ~g.players[k].folded /\ ~g.players[k].isAllIn
            THEN [g.players[k] EXCEPT !.hasActedThisRound = FALSE]
            ELSE g.players[k]])]

\* the all-in branch re-opening the action only for a full raise
allInReopens_fullRaiseOnly(before, after) ==
    after.currentBet - before.currentBet >= before.minRaise

\* whether the all-in branch of processAction re-opens the action
allInReopens(before, after) == after.currentBet > before.currentBet

\* applyAction without the assignment to lastAction
applyAction_lastActionKept(g, i, action, amount) ==
    LET handled ==
            CASE action = "fold" -> handleFold(g, i)
              [] action = "check" -> handleCheck(g, i)
              [] action = "call" -> handleCall(g, i)
              [] action = "raise" ->
                    resetOthersActed(handleRaise(g, i, amount), i)
              [] action = "all-in" ->
                    LET allIn == handleAllIn(g, i)
                    IN  IF allInReopens(g, allIn)
                        THEN resetOthersActed(allIn, i) ELSE allIn
    IN  [handled EXCEPT !.players[i].hasActedThisRound = TRUE]

\* the switch of processAction together with the two assignments after it
\* (hasActedThisRound, lastAction), for a call that passed validation
applyAction(g, i, action, amount) ==
    LET handled ==
            CASE action = "fold" -> handleFold(g, i)
              [] action = "check" -> handleCheck(g, i)
              [] action = "call" -> handleCall(g, i)
              [] action = "raise" ->
                    resetOthersActed(handleRaise(g, i, amount), i)
              [] action = "all-in" ->
                    LET allIn == handleAllIn(g, i)
                    IN  IF allInReopens(g, allIn)
                        THEN resetOthersActed(allIn, i) ELSE allIn
    IN  [handled EXCEPT
            !.players[i].hasActedThisRound = TRUE,
            !.lastAction = <<[playerId |-> g.players[i].id, action |-> action,
                              amount |-> amount, phase |-> g.phase]>>]

----------------------------------------------------------------------------
(* round and hand completion *)

\* isBettingRoundOver that only asks for matched bets, not for having acted
isBettingRoundOver_betsOnly(g) ==
    LET activePlayers == SelectSeq(g.players, LAMBDA p : ~p.folded /\ ~p.isAllIn)
    IN  IF Len(activePlayers) = 0 THEN TRUE
        ELSE \A k \in DOMAIN activePlayers :
                 activePlayers[k].bet = g.currentBet

isBettingRoundOver(g) ==
    LET activePlayers == SelectSeq(g.players, LAMBDA p : ~p.folded /\ ~p.isAllIn)
    IN  IF Len(activePlayers) = 0 THEN TRUE
        ELSE \A k \in DOMAIN activePlayers :
                 activePlayers[k].hasActedThisRound
                 /\ activePlayers[k].bet = g.currentBet

shouldGoToShowdown(g) ==
    Len(SelectSeq(notFolded(g.players), LAMBDA p : ~p.isAllIn)) <= 1

\* isHandOver without the single-survivor test
isHandOver_noSurvivorTest(g) ==
    LET activePlayers == notFolded(g.players)
        notAllIn == SelectSeq(activePlayers, LAMBDA p : ~p.isAllIn)
    IN  IF Len(notAllIn) <= 1 /\ isBettingRoundOver(g)
        THEN g.phase = "river" \/ shouldGoToShowdown(g)
        ELSE FALSE

isHandOver(g) ==
    LET activePlayers == notFolded(g.players)
        notAllIn == SelectSeq(activePlayers, LAMBDA p : ~p.isAllIn)
    IN  IF Len(activePlayers) = 1 THEN TRUE
        ELSE IF Len(notAllIn) <= 1 /\ isBettingRoundOver(g)
        THEN g.phase = "river" \/ shouldGoToShowdown(g)
        ELSE FALSE

calculateSidePots(g) ==
    LET activePlayers == notFolded(g.players)
        allInPlayers == SelectSeq(activePlayers, LAMBDA p : p.isAllIn)
        total == SumSeq(AsSeq([k \in DOMAIN activePlayers |-> activePlayers[k].totalBet]))
    IN  IF Len(allInPlayers) = 0 THEN g
        ELSE [g EXCEPT !.pots = <<[amount |-> total,
                                   eligiblePlayers |-> ids(activePlayers)]>>]

\* `count` times: card = deck.deal(); if (card) communityCards.push(card)
RECURSIVE dealBoard(_, _)
dealBoard(t, count) ==
    IF count <= 0 THEN t
    ELSE dealBoard([t EXCEPT !.deck = dealRest(@),
                             !.state.communityCards = @ \o dealCard(t.deck)],
                   count - 1)

\* dealCommunityCards that deals one card too many
dealCommunityCards_oneMore(t, count) ==
    dealBoard([t EXCEPT !.deck = burn(@)], count + 1)

\* dealCommunityCards(count)
dealCommunityCards(t, count) == dealBoard([t EXCEPT !.deck = burn(@)], count)

\* dealRemainingCards()
RECURSIVE dealRemainingLoop(_)
dealRemainingLoop(t) ==
    IF Len(t.state.communityCards) >= 5 \/ t.deck = <<>> THEN t
    ELSE IF Len(t.state.communityCards) = 0
    THEN dealRemainingLoop(dealCommunityCards(t, 3))
    ELSE dealRemainingLoop(dealCommunityCards(t, 1))

dealRemainingCards(t) ==
    [dealRemainingLoop(t) EXCEPT !.state.phase = "showdown"]

\* the loop of endHand: burn one card and deal one card until the board has 5
RECURSIVE burnAndDealLoop(_)
burnAndDealLoop(t) ==
    IF Len(t.state.communityCards) >= 5 \/ t.deck = <<>> THEN t
    ELSE burnAndDealLoop(dealBoard([t EXCEPT !.deck = burn(@)], 1))

\* the hand recorded for a winner by fold: no evaluation takes place
FOLD_WIN_HAND ==
    [rank |-> "high-card", rankValue |-> 1, cards |-> <<>>, kickers |-> <<>>]

\* the share of a winner who gets no odd chips, whatever the position
winnerAmount_noOddChips(total, count, k) == total \div count

\* the amount credited to the k-th of `count` winners (k = 1 is i === 0):
\* splitAmount, plus the odd chips for the first
winnerAmount(total, count, k) ==
    IF k = 1 THEN (total \div count) + (total % count) ELSE total \div count

\* winners.map((w, i) => ...) of endHand, crediting the players from k on
RECURSIVE creditWinners(_, _, _, _)
creditWinners(g, winners, total, k) ==
    IF k > Len(winners) THEN g
    ELSE LET splitAmount == total \div Len(winners)
             amount == winnerAmount(total, Len(winners), k)
             w == winners[k]
             i == findIndex(g.players, w.playerId) + 1
             credited == IF i = 0 THEN g
                         ELSE [g EXCEPT !.players[i].chips = @ + amount]
             info == [playerId |-> w.playerId, potIndex |-> 0,
                      amount |-> IF i = 0 THEN splitAmount ELSE amount,
                      hand |-> w.hand]
         IN  creditWinners([credited EXCEPT !.winners = Append(@, info)],
                           winners, total, k + 1)

clearTurns(g) ==
    [g EXCEPT !.players =
        AsSeq([k \in DOMAIN g.players |-> [g.players[k] EXCEPT !.isTurn = FALSE]])]

\* endHand()
endHand(t) ==
    LET g == t.state
        activePlayers == notFolded(g.players)
    IN  IF Len(activePlayers) = 1 THEN
            LET i == findIndex(g.players, activePlayers[1].id) + 1
                total == totalPot(g.pots)
                paid == [g EXCEPT
                            !.players[i].chips = @ + total,
                            !.winners = <<[playerId |-> activePlayers[1].id,
                                           potIndex |-> 0, amount |-> total,
                                           hand |-> FOLD_WIN_HAND]>>]
            IN  [t EXCEPT !.state = clearTurns([paid EXCEPT !.phase = "ended"])]
        ELSE
            LET board == burnAndDealLoop(t)
                b == board.state
                playerHands == AsSeq([k \in DOMAIN activePlayers |->
                                   [playerId |-> activePlayers[k].id,
                                    cards |-> activePlayers[k].cards,
                                    communityCards |-> b.communityCards]])
                winners == findWinners(playerHands)
                paid == creditWinners([b EXCEPT !.winners = <<>>], winners,
                                      totalPot(b.pots), 1)
            IN  [board EXCEPT !.state = clearTurns([paid EXCEPT !.phase = "ended"])]

\* advancePhase()
advancePhase(t) ==
    LET g == t.state
        cleared == calculateSidePots(
            [g EXCEPT
                !.players = AsSeq([k \in DOMAIN g.players |->
                                [g.players[k] EXCEPT !.bet = 0,
                                                     !.hasActedThisRound = FALSE]]),
                !.currentBet = 0])
        c == [t EXCEPT !.state = cleared]
        next == CASE g.phase = "preflop" ->
                        dealCommunityCards([c EXCEPT !.state.phase = "flop"], 3)
                  [] g.phase = "flop" ->
                        dealCommunityCards([c EXCEPT !.state.phase = "turn"], 1)
                  [] g.phase = "turn" ->
                        dealCommunityCards([c EXCEPT !.state.phase = "river"], 1)
                  [] OTHER -> c
    IN  IF g.phase = "river"
        THEN endHand([c EXCEPT !.state.phase = "showdown"])
        ELSE IF shouldGoToShowdown(next.state)
        THEN endHand(dealRemainingCards(next))
        ELSE [next EXCEPT !.state =
                 setCurrentPlayerTurn(
                     [next.state EXCEPT !.currentPlayerIndex =
                         findNextActivePlayer(next.state, next.state.dealerIndex)])]

\* the completion checks at the end of processAction
completeAction(t) ==
    IF isHandOver(t.state) THEN endHand(t)
    ELSE IF isBettingRoundOver(t.state) THEN advancePhase(t)
    ELSE [t EXCEPT !.state = advanceToNextPlayer(t.state)]

\* the validation without the test of the raise amount
actionAccepted_amountUnchecked(g, playerId, action, amount) ==
    /\ hasPlayer(g.players, playerId)
    /\ findPlayer(g.players, playerId).isTurn
    /\ ~findPlayer(g.players, playerId).folded
    /\ action \in getValidActions(g, playerId)
    /\ action = "check" => canCheck(g, findPlayer(g.players, playerId))

\* the validation at the head of processAction and inside its switch: every
\* `return false` of the method
actionAccepted(g, playerId, action, amount) ==
    /\ hasPlayer(g.players, playerId)
    /\ findPlayer(g.players, playerId).isTurn
    /\ ~findPlayer(g.players, playerId).folded
    /\ action \in getValidActions(g, playerId)
    /\ action = "check" => canCheck(g, findPlayer(g.players, playerId))
    /\ action = "raise" =>
           amount # NoAmount /\ canRaise(g, findPlayer(g.players, playerId), amount)

\* processAction(playerId, action, amount)
processAction(t, playerId, action, amount) ==
    IF ~actionAccepted(t.state, playerId, action, amount)
    THEN [ok |-> FALSE, this |-> t]
    ELSE LET i == findIndex(t.state.players, playerId) + 1
         IN  [ok |-> TRUE,
              this |-> completeAction(
                  [t EXCEPT !.state = applyAction(t.state, i, action, amount)])]

\* handleTurnTimeout(playerId): a fold forced on the player who still holds
\* the turn; false, with nothing changed, for anybody else
handleTurnTimeout(t, playerId) ==
    IF hasPlayer(t.state.players, playerId)
           /\ findPlayer(t.state.players, playerId).isTurn
    THEN processAction(t, playerId, "fold", NoAmount)
    ELSE [ok |-> FALSE, this |-> t]

----------------------------------------------------------------------------
(* views of the state *)

\* the null that stands for a hidden card in a view
NullCard == [suit |-> "null", rank |-> "null"]

\* getStateForPlayer that hides no cards
getStateForPlayer_allShown(t, playerId) == [state |-> t.state, this |-> t]

\* getStateForPlayer(playerId): the state returned, and the engine after the
\* call (the method works on copies)
getStateForPlayer(t, playerId) ==
    LET g == t.state
        shown(p) ==
            IF p.id = playerId \/ g.phase = "showdown" THEN p
            ELSE [p EXCEPT !.cards = [k \in DOMAIN p.cards |-> NullCard]]
    IN  [state |-> [g EXCEPT !.players =
                        AsSeq([i \in DOMAIN g.players |-> shown(g.players[i])])],
         this |-> t]

(* composables/use-game.ts: what a client that is not the host computes from *)
(* the GameState it was sent (gameState, of engine.getState()), for its      *)
(* player playerId                                                           *)

\* availableActions with the raise tested against the stack alone
availableActions_raiseByStack(gameState, playerId) ==
    IF ~hasPlayer(gameState.players, playerId) THEN {}
    ELSE LET player == findPlayer(gameState.players, playerId)
         IN  IF ~player.isTurn THEN {}
             ELSE {"fold"}
                  \cup (IF player.bet >= gameState.currentBet THEN {"check"} ELSE {})
                  \cup (IF player.bet < gameState.currentBet /\ player.chips > 0
                        THEN {"call"} ELSE {})
                  \cup (IF player.chips >= gameState.minRaise THEN {"raise"} ELSE {})
                  \cup (IF player.chips > 0 THEN {"all-in"} ELSE {})

\* availableActions, as a set
availableActions(gameState, playerId) ==
    IF ~hasPlayer(gameState.players, playerId) THEN {}
    ELSE LET player == findPlayer(gameState.players, playerId)
             currentBet == gameState.currentBet
             minRaiseAmount == currentBet + gameState.minRaise - player.bet
         IN  IF ~player.isTurn THEN {}
             ELSE {"fold"}
                  \cup (IF player.bet >= currentBet THEN {"check"} ELSE {})
                  \cup (IF player.bet < currentBet /\ player.chips > 0
                        THEN {"call"} ELSE {})
                  \cup (IF player.chips >= minRaiseAmount THEN {"raise"} ELSE {})
                  \cup (IF player.chips > 0 THEN {"all-in"} ELSE {})

callAmount(gameState, playerId) ==
    IF ~hasPlayer(gameState.players, playerId) THEN 0
    ELSE LET localPlayer == findPlayer(gameState.players, playerId)
         IN  Min(gameState.currentBet - localPlayer.bet, localPlayer.chips)

minRaise(gameState) == gameState.minRaise

maxRaise(gameState, playerId) ==
    IF ~hasPlayer(gameState.players, playerId) THEN 0
    ELSE LET localPlayer == findPlayer(gameState.players, playerId)
         IN  localPlayer.chips + localPlayer.bet - gameState.currentBet

----------------------------------------------------------------------------
(* The state machine: one action per public method of GameEngine *)

\* new GameEngine(settings)
Constructed(s) ==
    /\ settings = s
    /\ state = createInitialGameState(s)
    /\ deck \in ShuffleOutcomes
    /\ lastCall = [op |-> "constructor", ok |-> TRUE]
    /\ chipsBeforeHand = 0
    /\ hands = 0

Init == Constructed(ModelSettings(MaxPlayers))
\* r is the [ok, this] a method call produced
Commit(r, op) ==
    /\ state' = r.this.state
    /\ deck' = r.this.deck
    /\ settings' = r.this.settings
    /\ lastCall' = [op |-> op, ok |-> r.ok]

\* the sum of the chip stacks of a roster
RECURSIVE sumChips(_)
sumChips(ps) == IF ps = <<>> THEN 0 ELSE Head(ps).chips + sumChips(Tail(ps))

AddPlayer(id, chips) ==
    /\ Commit(addPlayer(This, createPlayer(id, chips)), "addPlayer")
    /\ UNCHANGED <<chipsBeforeHand, hands>>

RemovePlayer(id) ==
    /\ Commit(removePlayer(This, id), "removePlayer")
    /\ UNCHANGED <<chipsBeforeHand, hands>>

StartHand(newDeck) ==
    /\ Commit(startHand(This, newDeck), "startHand")
    /\ chipsBeforeHand' = IF startHand(This, newDeck).ok
                          THEN sumChips(state.players) ELSE chipsBeforeHand
    /\ hands' = IF startHand(This, newDeck).ok THEN hands + 1 ELSE hands

ProcessAction(playerId, action, amount) ==
    /\ Commit(processAction(This, playerId, action, amount), "processAction")
    /\ UNCHANGED <<chipsBeforeHand, hands>>

ResetForNextHand ==
    /\ Commit([ok |-> TRUE, this |-> resetForNextHand(This)], "resetForNextHand")
    /\ UNCHANGED <<chipsBeforeHand, hands>>

TipPlayer(fromId, toId, amount) ==
    /\ Commit(tipPlayer(This, fromId, toId, amount), "tipPlayer")
    /\ UNCHANGED <<chipsBeforeHand, hands>>

AddChipsToAll(amount) ==
    /\ Commit([ok |-> TRUE, this |-> addChipsToAll(This, amount)], "addChipsToAll")
    /\ UNCHANGED <<chipsBeforeHand, hands>>

HandleTurnTimeout(playerId) ==
    /\ Commit(handleTurnTimeout(This, playerId), "handleTurnTimeout")
    /\ UNCHANGED <<chipsBeforeHand, hands>>

\* addPlayer(player) for a Player object whose isConnected the caller chose
SeatPlayer(id, chips, isConnected) ==
    /\ Commit(addPlayer(This, [createPlayer(id, chips) EXCEPT
                                  !.isConnected = isConnected]), "addPlayer")
    /\ UNCHANGED <<chipsBeforeHand, hands>>

\* the methods of the Deck object the engine owns; the engine's state stays
DeckCall(newCards, op, ok) ==
    /\ deck' = newCards
    /\ lastCall' = [op |-> op, ok |-> ok]
    /\ UNCHANGED <<state, settings, chipsBeforeHand, hands>>

\* Deck.deal(); ok: a card was returned
DeckDeal == DeckCall(dealRest(deck), "deal", dealCard(deck) # <<>>)

\* Deck.dealMultiple(count); ok: `count` cards were returned
DeckDealMultiple(count) ==
    DeckCall(dealMultiple(deck, count).rest, "dealMultiple",
             Len(dealMultiple(deck, count).cards) = count)

\* Deck.burn()
DeckBurn == DeckCall(burn(deck), "burn", TRUE)

\* Deck.reset()
DeckReset(newDeck) == DeckCall(newDeck, "reset", TRUE)

\* evaluateHand(cards) called on the card array held in `deck`; the
\* HandResult returned is kept as the hand of the only entry of state.winners
EvaluateHand ==
    /\ lastCall.op # "evaluateHand"
    /\ state' = [state EXCEPT !.winners =
                     <<[playerId |-> 0, potIndex |-> 0, amount |-> 0,
                        hand |-> evaluateHand(deck)]>>]
    /\ lastCall' = [op |-> "evaluateHand", ok |-> TRUE]
    /\ UNCHANGED <<deck, settings, chipsBeforeHand, hands>>

\* whether the player with this id is flagged as holding the turn
holdsTurn(id) ==
    hasPlayer(state.players, id) /\ findPlayer(state.players, id).isTurn

\* the requests <<playerId, action, amount>> submitted to processAction: only
\* a raise carries an amount; the turn holder may send anything, anybody else
\* (seated or not) sends a fold
Requests ==
    {r \in PlayerIds \X Actions \X Amounts :
        /\ r[2] # "raise" => r[3] = NoAmount
        /\ ~holdsTurn(r[1]) => r[2] = "fold"}

\* ids are handed out in order: a new seat is asked for by the next unused id
\* or by an id that may already be seated
IdsOnOffer == {id \in PlayerIds : id <= Len(state.players) + 1}

StacksWithinBound ==
    \A i \in DOMAIN state.players : state.players[i].chips <= MaxChips

\* no hand has been started yet
Seating == lastCall.op \in {"constructor", "addPlayer"}

(* Spec: a table played the way the host drives it: players sit down before *)
(* the first hand, at most MaxHands hands are started from `waiting`,        *)
(* actions are submitted, and an ended hand is reset.                        *)
Next ==
    \/ \E id \in IdsOnOffer, chips \in ChipChoices :
           Seating /\ AddPlayer(id, chips)
    \/ \E newDeck \in ShuffleOutcomes :
           /\ state.phase = "waiting"
           /\ hands < MaxHands
           /\ StacksWithinBound
           /\ StartHand(newDeck)
    \/ \E r \in Requests : ProcessAction(r[1], r[2], r[3])
    \/ state.phase = "ended" /\ ResetForNextHand

Spec == Init /\ [][Next]_vars

(* SpecWide: one hand at a table of MaxPlayers + 1 seats; every seat is     *)
(* taken, with a stack of MaxChips - 3 or MaxChips - 2, before the hand is   *)
(* started.                                                                  *)
WideSeats == MaxPlayers + 1
WideChips == {MaxChips - 3, MaxChips - 2}

InitWide == Constructed(ModelSettings(WideSeats))

NextWide ==
    \/ \E id \in IdsOnOffer, chips \in WideChips :
           Seating /\ AddPlayer(id, chips)
    \/ \E newDeck \in ShuffleOutcomes :
           /\ state.phase = "waiting"
           /\ Len(state.players) = WideSeats
           /\ hands = 0
           /\ StartHand(newDeck)
    \/ \E r \in Requests : ProcessAction(r[1], r[2], r[3])

SpecWide == InitWide /\ [][NextWide]_vars

(* SpecDeep: one hand between players who all sat down with more than     *)
(* MaxChips, deep enough for a raise over a raise.                          *)
DeepChips == {MaxChips + 2}

NextDeep ==
    \/ \E id \in IdsOnOffer, chips \in DeepChips :
           Seating /\ AddPlayer(id, chips)
    \/ \E newDeck \in ShuffleOutcomes :
           /\ state.phase = "waiting"
           /\ hands = 0
           /\ StartHand(newDeck)
    \/ \E r \in Requests : ProcessAction(r[1], r[2], r[3])

SpecDeep == Init /\ [][NextDeep]_vars

(* SpecTie: one hand dealt from a deck order on which two players heads-up  *)
(* hold hands of equal value at the showdown.                               *)
TieSeed == 33
TieOutcomes == {shuffleDeck(createDeck, TieSeed)}

NextTie ==
    \/ \E id \in IdsOnOffer, chips \in ChipChoices :
           Seating /\ AddPlayer(id, chips)
    \/ \E newDeck \in TieOutcomes :
           /\ state.phase = "waiting"
           /\ hands = 0
           /\ StartHand(newDeck)
    \/ \E r \in Requests : ProcessAction(r[1], r[2], r[3])

SpecTie == Init /\ [][NextTie]_vars

(* SpecOpen: the host calls whatever the interface offers at any moment:    *)
(* players are seated and hands are started (at most MaxHands) in every     *)
(* phase, also while a hand is in progress.                                 *)
OpenChips == {MaxChips - 2}

NextOpen ==
    \/ \E id \in IdsOnOffer, chips \in OpenChips : AddPlayer(id, chips)
    \/ \E newDeck \in ShuffleOutcomes :
           hands < MaxHands /\ StartHand(newDeck)
    \/ \E r \in Requests : ProcessAction(r[1], r[2], r[3])
    \/ state.phase = "ended" /\ ResetForNextHand

SpecOpen == Init /\ [][NextOpen]_vars

(* SpecHost: the roster commands of the engine: players (connected or not) *)
(* sit down before the hand, players are removed in every phase, one hand   *)
(* is started from `waiting`, actions and turn timeouts are submitted and   *)
(* an ended hand is reset.                                                  *)
HostChips == {MaxChips - 3}

NextHost ==
    \/ \E id \in IdsOnOffer, chips \in HostChips, isConnected \in BOOLEAN :
           /\ state.phase = "waiting"
           /\ hands = 0
           /\ SeatPlayer(id, chips, isConnected)
    \/ \E id \in PlayerIds : RemovePlayer(id)
    \/ \E newDeck \in ShuffleOutcomes :
           /\ state.phase = "waiting"
           /\ hands = 0
           /\ StartHand(newDeck)
    \/ \E r \in Requests : ProcessAction(r[1], r[2], r[3])
    \/ \E id \in PlayerIds : HandleTurnTimeout(id)
    \/ state.phase = "ended" /\ ResetForNextHand

SpecHost == Init /\ [][NextHost]_vars

(* SpecBank: one hand during and after which chips move out of band:       *)
(* players (connected or not) sit down before the hand; once it has been   *)
(* started chips are tipped between players and granted to the table in    *)
(* every phase.  A tip goes to a player with a lower id or to the tipper,  *)
(* so that chips do not travel in circles.                                 *)
\* tipPlayer amounts: none, one chip, a whole starting stack
TipAmounts == {0, 1, MaxChips - 3}
\* addChipsToAll amounts: negative, none, one chip
GrantAmounts == {-1, 0, 1}
\* chips granted to each player by addChipsToAll at one table, at most
MaxGrant == 1

NextBank ==
    \/ \E id \in IdsOnOffer, chips \in HostChips, isConnected \in BOOLEAN :
           Seating /\ SeatPlayer(id, chips, isConnected)
    \/ \E newDeck \in ShuffleOutcomes :
           /\ state.phase = "waiting"
           /\ hands = 0
           /\ StartHand(newDeck)
    \/ \E r \in Requests : ProcessAction(r[1], r[2], r[3])
    \/ state.phase = "ended" /\ ResetForNextHand
    \/ \E fromId \in PlayerIds, toId \in PlayerIds, amount \in TipAmounts :
           /\ hands > 0
           /\ fromId >= toId
           /\ TipPlayer(fromId, toId, amount)
    \/ \E amount \in GrantAmounts :
           /\ hands > 0
           /\ settings.startingChips + amount <= MaxChips + MaxGrant
           /\ AddChipsToAll(amount)

SpecBank == Init /\ [][NextBank]_vars


(* SpecDeck: the Deck object on its own: cards are dealt one by one and in *)
(* batches, burned, and the deck is reset, in any order.                    *)
\* number of random sources Deck.reset() is run with
NumDeckSeeds == 4
DeckOutcomes == {shuffleDeck(createDeck, seed) : seed \in 0..(NumDeckSeeds - 1)}
\* dealMultiple counts: the hole cards of a player, a flop
DealCounts == {2, 3}

NextDeck ==
    \/ DeckDeal
    \/ \E count \in DealCounts : DeckDealMultiple(count)
    \/ DeckBurn
    \/ \E newDeck \in DeckOutcomes : DeckReset(newDeck)

SpecDeck == Init /\ [][NextDeck]_vars

(* SpecEval: the hand evaluator on its own.  `deck` holds the array of 5,   *)
(* 6 or 7 distinct cards handed to evaluateHand, taken in deck order from    *)
(* one of three parts of the deck: low ranks in two suits (the wheel and the *)
(* straights next to it, flushes, straight flushes), high ranks in two suits *)
(* (up to the royal flush) and three ranks in all suits (pairs, sets, full   *)
(* houses, four of a kind).                                                  *)
cardsOf(ranks, suits) == {[suit |-> s, rank |-> r] : s \in suits, r \in ranks}
LowCards == cardsOf({"A", "2", "3", "4", "5", "6"}, {"hearts", "spades"})
HighCards == cardsOf({"9", "10", "J", "Q", "K", "A"}, {"hearts", "spades"})
SetCards == cardsOf({"2", "7", "K"}, Range(SUITS))
\* sizes of the arrays evaluateHand is called with
MinCards == 5
MaxCards == 7

\* the cards of S as an array, in the order of createDeck
inDeckOrder(S) == SelectSeq(createDeck, LAMBDA c : c \in S)

EvalInputs ==
    {inDeckOrder(S) :
        S \in {T \in SUBSET LowCards \cup SUBSET HighCards \cup SUBSET SetCards :
                   Cardinality(T) \in MinCards..MaxCards}}

InitEval ==
    /\ settings = ModelSettings(MaxPlayers)
    /\ state = createInitialGameState(settings)
    /\ deck \in EvalInputs
    /\ lastCall = [op |-> "constructor", ok |-> TRUE]
    /\ chipsBeforeHand = 0
    /\ hands = 0

NextEval == EvaluateHand

SpecEval == InitEval /\ [][NextEval]_vars

----------------------------------------------------------------------------
(* Properties *)

players == state.players
phase == state.phase
turnHolders == {i \in DOMAIN players : players[i].isTurn}

RECURSIVE sumBets(_)
sumBets(ps) == IF ps = <<>> THEN 0 ELSE Head(ps).bet + sumBets(Tail(ps))

RECURSIVE sumTotalBets(_)
sumTotalBets(ps) ==
    IF ps = <<>> THEN 0 ELSE Head(ps).totalBet + sumTotalBets(Tail(ps))

\* positions of the players still to act on a street: neither folded nor
\* all-in
toAct(ps) == {k \in DOMAIN ps : ~ps[k].folded /\ ~ps[k].isAllIn}

\* the step is a processAction call that returned true
acceptedCall == lastCall'.op = "processAction" /\ lastCall'.ok

\* what that call applied, as the engine recorded it, and who made it
appliedAction == state'.lastAction[1]
actorIndex == findIndex(state.players, appliedAction.playerId) + 1

\* a processAction call has just returned true / false
justAccepted == lastCall.op = "processAction" /\ lastCall.ok
justRejected == lastCall.op = "processAction" /\ ~lastCall.ok

\* C1: in an interactive phase (preflop, flop, turn, river) exactly one
\* player has isTurn = true and that player is neither folded nor all-in; in
\* waiting, showdown and ended no player has isTurn = true.
C1_ExactlyOneTurnHolder ==
    /\ phase \in InteractivePhases =>
           /\ Cardinality(turnHolders) = 1
           /\ \A i \in turnHolders : ~players[i].folded /\ ~players[i].isAllIn
    /\ phase \in {"waiting", "showdown", "ended"} => turnHolders = {}

\* the quantity of C2: stacks + street bets + pot amounts
chipsBetsPots(g) == sumChips(g.players) + sumBets(g.players) + totalPot(g.pots)

\* C2 as stated: an accepted processAction call leaves
\* sum(chips) + sum(street bets) + sum(pot amounts) as it was, so that the
\* quantity is the same in every state of a hand.
C2_ChipsBetsPotsConstant ==
    [][acceptedCall => chipsBetsPots(state') = chipsBetsPots(state)]_vars

\* C2 as amended: the pot already holds the street bets.  A successful
\* startHand and every accepted processAction call that does not end the
\* hand leave sum(chips) + sum(totalBet) at the sum of the stacks before
\* startHand, and an accepted call that keeps the phase leaves
\* sum(chips) + sum(pot amounts) as it was.
C2_ChipsAndContributionsConstant ==
    [][/\ (lastCall'.op = "startHand" /\ lastCall'.ok) =>
              sumChips(state'.players) + sumTotalBets(state'.players)
                  = sumChips(state.players)
       /\ (acceptedCall /\ state'.phase # "ended") =>
              sumChips(state'.players) + sumTotalBets(state'.players)
                  = sumChips(state.players) + sumTotalBets(state.players)
       /\ (acceptedCall /\ state'.phase = state.phase) =>
              sumChips(state'.players) + totalPot(state'.pots)
                  = sumChips(state.players) + totalPot(state.pots)]_vars

\* a bet has been accepted on a street after the flop was dealt
C2_BetAfterTheFlop ==
    /\ justAccepted
    /\ phase \in {"flop", "turn", "river"}
    /\ state.lastAction[1].phase = phase
    /\ sumBets(players) > 0

\* C3: when a hand has ended the chip stacks sum to what they summed to
\* immediately before startHand.
C3_ChipsConservedOverHand ==
    phase = "ended" => sumChips(players) = chipsBeforeHand

\* the cases in which C4 has processAction reject
C4_mustReject(r) ==
    IF ~hasPlayer(players, r[1]) THEN TRUE
    ELSE LET player == findPlayer(players, r[1])
         IN  \/ ~player.isTurn
             \/ player.folded
             \/ r[2] \notin getValidActions(state, r[1])
             \/ /\ r[2] = "raise"
                /\ \/ r[3] = NoAmount
                   \/ r[3] < getMinRaise(state)
                   \/ r[3] > getMaxRaise(state, r[1])

\* C4: processAction returns false and leaves players, pots, currentBet,
\* minRaise, phase, turn, lastAction, the deck and the settings as they were
\* whenever the player is unknown, does not hold the turn, is folded, the
\* action is not among getValidActions, or the action is a raise without an
\* amount or with one outside getMinRaise .. getMaxRaise.
C4_RejectedCallChangesNothing ==
    \A r \in PlayerIds \X Actions \X Amounts :
        C4_mustReject(r) =>
            LET res == processAction(This, r[1], r[2], r[3])
            IN  ~res.ok /\ res.this = This

\* a call was rejected while a player who could raise held the turn
C4_RejectedDuringBetting ==
    /\ justRejected
    /\ phase \in InteractivePhases
    /\ \E i \in turnHolders : "raise" \in getValidActions(state, players[i].id)

\* C5: for the player on turn (not folded, not all-in) getValidActions is
\* exactly: fold; check iff bet = currentBet; call iff bet < currentBet and
\* chips > 0; raise iff chips + bet - currentBet >= minRaise; all-in iff
\* chips > 0.  For a folded or all-in player it is empty.
C5_ValidActionsExact ==
    \A i \in DOMAIN players :
        LET p == players[i]
            valid == getValidActions(state, p.id)
        IN  /\ (p.folded \/ p.isAllIn) => valid = {}
            /\ (p.isTurn /\ ~p.folded /\ ~p.isAllIn) =>
                   /\ valid \subseteq Actions
                   /\ "fold" \in valid
                   /\ "check" \in valid <=> p.bet = state.currentBet
                   /\ "call" \in valid <=> (p.bet < state.currentBet /\ p.chips > 0)
                   /\ "raise" \in valid <=>
                          p.chips + p.bet - state.currentBet >= state.minRaise
                   /\ "all-in" \in valid <=> p.chips > 0

\* the player on turn may call or raise while another player has folded
C5_TurnHolderFacingBet ==
    /\ \E i \in turnHolders :
           {"call", "raise"} \subseteq getValidActions(state, players[i].id)
    /\ \E i \in DOMAIN players : players[i].folded

\* C6: a raise by the player on turn is accepted iff
\* minRaise <= amount <= chips + bet - currentBet; an accepted raise leaves
\* the stack non-negative and minRaise at its increment, and no processAction
\* call lowers minRaise, so that a raise below the last raise increment of
\* the hand is rejected.
C6_RaiseAcceptedIffInRange ==
    /\ \A i \in turnHolders, amount \in Amounts :
           LET p == players[i]
               res == processAction(This, p.id, "raise", amount)
           IN  /\ res.ok <=>
                      /\ amount # NoAmount
                      /\ state.minRaise <= amount
                      /\ amount <= p.chips + p.bet - state.currentBet
               /\ res.ok =>
                      /\ res.this.state.players[i].chips >= 0
                      /\ res.this.state.minRaise = amount
    /\ \A r \in Requests :
           processAction(This, r[1], r[2], r[3]).this.state.minRaise
               >= state.minRaise

\* a raise above the opening minimum has been accepted, and the player on
\* turn could afford a raise of the opening minimum but not of the new one
C6_AfterBiggerRaise ==
    /\ justAccepted
    /\ state.lastAction[1].action = "raise"
    /\ state.minRaise > state.bigBlind
    /\ \E i \in turnHolders :
           LET room == players[i].chips + players[i].bet - state.currentBet
           IN  state.bigBlind <= room /\ room < state.minRaise

\* C7: an accepted raise of `amount` by p sets currentBet to the old
\* currentBet + amount and minRaise to amount; after it hasActedThisRound is
\* true for p and false for every other non-folded, non-all-in player, and
\* while such a player exists the phase stays and one of them holds the turn.
\* No accepted action closes the street while another player who is neither
\* folded nor all-in has not acted: the phase stays or the hand ends.
C7_RaiseReopensAction ==
    [][acceptedCall =>
          LET i == actorIndex
              after == state'.players
              others == toAct(after) \ {i}
          IN  /\ appliedAction.action = "raise" =>
                     /\ state'.currentBet = state.currentBet + appliedAction.amount
                     /\ state'.minRaise = appliedAction.amount
                     /\ after[i].hasActedThisRound
                     /\ \A k \in others : ~after[k].hasActedThisRound
                     /\ others # {} =>
                            /\ state'.phase = state.phase
                            /\ \E k \in others : after[k].isTurn
              /\ (\E k \in toAct(state.players) \ {i} :
                      ~state.players[k].hasActedThisRound) =>
                     state'.phase \in {state.phase, "ended"}]_vars

\* a raise has just re-opened the action for a player who had already put
\* chips in on this street without being a blind
C7_CallerMustActAgain ==
    /\ justAccepted
    /\ state.lastAction[1].action = "raise"
    /\ phase \in InteractivePhases
    /\ \E k \in toAct(players) :
           /\ ~players[k].hasActedThisRound
           /\ players[k].bet > 0
           /\ ~players[k].isSmallBlind /\ ~players[k].isBigBlind

\* C8 as stated: an accepted all-in puts the whole stack in (isAllIn, and
\* chips 0 unless the hand ended and paid out); while the street stays open
\* it clears the acted flags of the others (non-folded, non-all-in) iff the
\* new street bet exceeds the previous currentBet by at least minRaise, and
\* otherwise leaves them as they were.
C8_AllInReopensByMinRaise ==
    [][(acceptedCall /\ appliedAction.action = "all-in") =>
          LET i == actorIndex
              before == state.players
              after == state'.players
              newBet == before[i].bet + before[i].chips
              others == toAct(before) \ {i}
          IN  /\ after[i].isAllIn
              /\ after[i].totalBet = before[i].totalBet + before[i].chips
              /\ state'.phase # "ended" => after[i].chips = 0
              /\ state'.phase = state.phase =>
                     IF newBet - state.currentBet >= state.minRaise
                     THEN \A k \in others : ~after[k].hasActedThisRound
                     ELSE \A k \in others :
                              after[k].hasActedThisRound
                                  = before[k].hasActedThisRound]_vars

\* C8 as amended: ... it clears the acted flags of the others iff the new
\* street bet exceeds the previous currentBet, by whatever amount; an all-in
\* that does not exceed it leaves them as they were.
C8_AllInReopensOnAnyIncrease ==
    [][(acceptedCall /\ appliedAction.action = "all-in") =>
          LET i == actorIndex
              before == state.players
              after == state'.players
              newBet == before[i].bet + before[i].chips
              others == toAct(before) \ {i}
          IN  /\ after[i].isAllIn
              /\ after[i].totalBet = before[i].totalBet + before[i].chips
              /\ state'.phase # "ended" => after[i].chips = 0
              /\ state'.phase = state.phase =>
                     IF newBet > state.currentBet
                     THEN \A k \in others : ~after[k].hasActedThisRound
                     ELSE \A k \in others :
                              after[k].hasActedThisRound
                                  = before[k].hasActedThisRound]_vars

\* an all-in has just raised the bet by less than minRaise while a player who
\* had already called is still to act
C8_ShortAllInOverCaller ==
    /\ justAccepted
    /\ state.lastAction[1].action = "all-in"
    /\ phase = "preflop"
    /\ state.currentBet > state.bigBlind
    /\ state.currentBet - state.bigBlind < state.minRaise
    /\ \E k \in toAct(players) :
           /\ players[k].bet = state.bigBlind
           /\ ~players[k].isBigBlind
           /\ ~players[k].hasActedThisRound

\* every player still to act has acted on this street and matched currentBet
allSettled(g) ==
    \A k \in toAct(g.players) :
        g.players[k].hasActedThisRound /\ g.players[k].bet = g.currentBet

\* the state the completion checks of processAction look at: the accepted
\* action applied, nothing advanced yet
afterAction ==
    applyAction(state, actorIndex, appliedAction.action, appliedAction.amount)

\* C9 as stated: after an accepted action that does not end the hand the
\* phase advances iff every non-folded, non-all-in player has acted and
\* matched currentBet, or at most one non-folded player is not all-in.
C9_StreetOverOrLoneActor ==
    [][(acceptedCall /\ state'.phase # "ended") =>
          (state'.phase # state.phase <=>
              \/ allSettled(afterAction)
              \/ Cardinality(toAct(afterAction.players)) <= 1)]_vars

\* C9 as amended: after an accepted action that does not end the hand the
\* phase advances iff every non-folded, non-all-in player has acted and
\* matched currentBet (also when a single such player is left); otherwise the
\* phase stays and another player, neither folded nor all-in, holds the turn.
C9_StreetOverIffAllSettled ==
    [][(acceptedCall /\ state'.phase # "ended") =>
          /\ state'.phase # state.phase <=> allSettled(afterAction)
          /\ ~allSettled(afterAction) =>
                 \E k \in toAct(state'.players) \ {actorIndex} :
                     state'.players[k].isTurn]_vars

\* an accepted action has closed a street of three players and the hand goes
\* on
C9_StreetClosed ==
    /\ justAccepted
    /\ phase \in {"flop", "turn", "river"}
    /\ state.lastAction[1].phase # phase
    /\ Cardinality(toAct(players)) >= 2
    /\ Len(players) = 3

\* C10: an accepted fold that leaves exactly one non-folded player ends the
\* hand within the call: phase ended, community cards and deck as they were,
\* winners naming only that player with the hand recorded for a win by fold
\* (no evaluation), and that player's chips increased by the sum of the pot
\* amounts.
C10_LastFoldEndsHand ==
    [][(/\ acceptedCall
        /\ appliedAction.action = "fold"
        /\ Len(notFolded(state'.players)) = 1) =>
          LET survivor == notFolded(state'.players)[1].id
              k == findIndex(state.players, survivor) + 1
              won == totalPot(state.pots)
          IN  /\ state'.phase = "ended"
              /\ state'.communityCards = state.communityCards
              /\ deck' = deck
              /\ Len(state'.winners) = 1
              /\ state'.winners[1].playerId = survivor
              /\ state'.winners[1].amount = won
              /\ state'.winners[1].hand = FOLD_WIN_HAND
              /\ state'.players[k].chips = state.players[k].chips + won]_vars

\* the last opponent has just folded on a street after the flop, leaving a
\* pot to the survivor
C10_FoldedToSurvivorAfterFlop ==
    /\ justAccepted
    /\ state.lastAction[1].action = "fold"
    /\ phase = "ended"
    /\ Len(notFolded(players)) = 1
    /\ Len(state.communityCards) >= 3
    /\ Len(players) = 3

\* C11: whenever a betting round is over (everybody still to act has acted
\* and matched) with two or more non-folded players of whom at most one is
\* not all-in, the engine has dealt the board out and run the showdown within
\* the call that produced the situation: it never rests in an interactive
\* phase in that situation.
C11_BettingOverRunsToShowdown ==
    phase \in InteractivePhases =>
        ~(/\ allSettled(state)
          /\ Len(notFolded(players)) >= 2
          /\ Cardinality(toAct(players)) <= 1)

\* the step is an accepted processAction that ended the hand in a showdown
showdownCall ==
    /\ acceptedCall
    /\ state'.phase = "ended"
    /\ Len(notFolded(state'.players)) >= 2

\* what the winners list credits to the player with this id
creditedTo(winners, id) ==
    SumSeq(AsSeq([j \in DOMAIN winners |->
        IF winners[j].playerId = id THEN winners[j].amount ELSE 0]))

\* C12: at showdown with total pot T and k co-winners every winner is
\* credited floor(T / k), the first winner T mod k on top, so that the
\* credited amounts sum to T; the chips are added to the winners' stacks in
\* the same call, after which the phase is ended and no turn flag is set.
C12_PotSplitOddChipsToFirst ==
    [][showdownCall =>
          LET T == totalPot(state'.pots)
              w == state'.winners
              k == Len(w)
              after == state'.players
          IN  /\ k >= 1
              /\ \A j \in 1..k :
                     w[j].amount = (T \div k) + (IF j = 1 THEN T % k ELSE 0)
              /\ SumSeq(AsSeq([j \in 1..k |-> w[j].amount])) = T
              /\ \A i \in DOMAIN after :
                     after[i].chips = afterAction.players[i].chips
                                          + creditedTo(w, after[i].id)
              /\ \A i \in DOMAIN after : ~after[i].isTurn]_vars

\* a showdown has just split a pot of an odd number of chips between two
\* tied players
C12_OddPotSplitInTwo ==
    /\ justAccepted
    /\ phase = "ended"
    /\ Len(notFolded(players)) >= 2
    /\ Len(state.winners) = 2
    /\ totalPot(state.pots) % 2 = 1
    /\ state.winners[1].amount = state.winners[2].amount + 1

\* the hand of the player at position i of roster ps on this board
handOf(ps, i, board) == evaluateHand(ps[i].cards \o board)

\* C13: at a showdown the winners are exactly the non-folded players whose
\* best hand (hole cards plus board) is not beaten by any non-folded
\* player's: at least one, every tied player, each once and with that hand
\* recorded, and never a folded player.
C13_WinnersAreTheMaximalHands ==
    [][showdownCall =>
          \A shown \in {AsSeq([i \in DOMAIN state'.players |->
                          handOf(state'.players, i, state'.communityCards)])} :
              LET after == state'.players
                  w == state'.winners
                  standing == {i \in DOMAIN after : ~after[i].folded}
                  maximal == {i \in standing : \A j \in standing :
                                 compareHands(shown[i], shown[j]) >= 0}
              IN  /\ w # <<>>
                  /\ {w[j].playerId : j \in DOMAIN w}
                         = {after[i].id : i \in maximal}
                  /\ Len(w) = Cardinality(maximal)
                  /\ \A j \in DOMAIN w : \A i \in DOMAIN after :
                         w[j].playerId = after[i].id =>
                             ~after[i].folded /\ w[j].hand = shown[i]]_vars

\* a hand played to the river has just ended in a showdown that two players
\* win with equal hands
C13_TiedAfterTheRiver ==
    /\ justAccepted
    /\ phase = "ended"
    /\ state.lastAction[1].phase = "river"
    /\ Len(state.winners) = 2
    /\ compareHands(state.winners[1].hand, state.winners[2].hand) = 0

\* C14: an all-in player who wins a showdown alone receives from each player
\* at most what the winner bet in the hand (the winner's totalBet); what
\* deeper stacks bet beyond that level belongs to a side pot the winner is
\* not eligible for.
C14_AllInWinnerCappedByOwnBet ==
    (/\ phase = "ended"
     /\ Len(notFolded(players)) >= 2
     /\ Len(state.winners) = 1
     /\ findPlayer(players, state.winners[1].playerId).isAllIn) =>
        LET level == findPlayer(players, state.winners[1].playerId).totalBet
        IN  state.winners[1].amount
                <= SumSeq(AsSeq([i \in DOMAIN players |->
                       Min(players[i].totalBet, level)]))

\* positions of the players a hand can be dealt to: connected, chips > 0
eligible(ps) == {i \in DOMAIN ps : ps[i].chips > 0 /\ ps[i].isConnected}

\* the step is a startHand call; one that returned true
startHandCall == lastCall'.op = "startHand"
startedHand == lastCall'.op = "startHand" /\ lastCall'.ok

\* C15: startHand succeeds only (and whenever) at least two players are
\* connected with chips > 0; otherwise it returns false and leaves players,
\* pots, phase, dealer index, deck, winners and all the rest unchanged.
C15_StartHandNeedsTwoPlayers ==
    [][startHandCall =>
          /\ lastCall'.ok <=> Cardinality(eligible(state.players)) >= 2
          /\ ~lastCall'.ok =>
                 state' = state /\ deck' = deck /\ settings' = settings]_vars

\* startHand has just been refused at a table of two or more seats because
\* a player is out of chips
C15_RefusedWithBustedPlayer ==
    /\ lastCall.op = "startHand"
    /\ ~lastCall.ok
    /\ Len(players) >= 2
    /\ \E i \in DOMAIN players : players[i].chips = 0

\* the first position (0-based) of S met from index `from` + 1 on, going
\* round a roster of n seats; S is a non-empty set of 1-based positions
firstAfter(S, from, n) ==
    LET steps == {k \in 1..n : (((from + k) % n) + 1) \in S}
    IN  (from + (CHOOSE k \in steps : \A j \in steps : k <= j)) % n

\* the blind poster at position i paid min(blind, stack) and is all-in iff
\* that emptied the stack
blindPosted(before, after, i, blind) ==
    /\ after[i].bet = Min(blind, before[i].chips)
    /\ after[i].totalBet = Min(blind, before[i].chips)
    /\ after[i].chips = before[i].chips - Min(blind, before[i].chips)
    /\ after[i].isAllIn <=> after[i].chips = 0

C17_FirstToActAfterBigBlind ==
    (lastCall.op = "startHand" /\ lastCall.ok) =>
        /\ phase = "preflop"
        /\ state.currentBet = state.bigBlind
        /\ state.minRaise = state.bigBlind
        /\ \A bb \in {i \in DOMAIN players : players[i].isBigBlind} :
               toAct(players) # {} =>
                   turnHolders
                       = {firstAfter(toAct(players), bb - 1, Len(players)) + 1}

\* the street that follows a street
nextStreet(p) ==
    CASE p = "preflop" -> "flop" [] p = "flop" -> "turn"
      [] p = "turn" -> "river" [] OTHER -> "showdown"

\* the size of the board on a street
boardSize(p) ==
    CASE p = "flop" -> 3 [] p = "turn" -> 4 [] p = "river" -> 5 [] OTHER -> 0

\* C18: when a street closes with betting still possible the advance sets
\* every player's street bet to 0, every hasActedThisRound to false and
\* currentBet to 0, adds 3 community cards on entering the flop and 1 on
\* entering turn and river (3, 4, 5 on the board), and gives the turn to the
\* first non-folded player with chips after the dealer button.
C18_NextStreetOpensAfterButton ==
    [][(acceptedCall /\ state'.phase # state.phase /\ state'.phase # "ended") =>
          LET after == state'.players
              n == Len(after)
              board == state'.communityCards
              old == Len(state.communityCards)
              able == {i \in DOMAIN after : ~after[i].folded /\ after[i].chips > 0}
          IN  /\ state'.phase = nextStreet(state.phase)
              /\ \A i \in DOMAIN after :
                     after[i].bet = 0 /\ ~after[i].hasActedThisRound
              /\ state'.currentBet = 0
              /\ Len(board) = boardSize(state'.phase)
              /\ Len(board) - old = IF state'.phase = "flop" THEN 3 ELSE 1
              /\ SubSeq(board, 1, old) = state.communityCards
              /\ able # {}
              /\ {i \in DOMAIN after : after[i].isTurn}
                     = {firstAfter(able, state.dealerIndex, n) + 1}]_vars

\* the flop has just been dealt three-handed and the turn is on the small
\* blind, the first player after the button
C18_FlopOpensOnSmallBlind ==
    /\ justAccepted
    /\ phase = "flop"
    /\ state.lastAction[1].phase = "preflop"
    /\ Len(notFolded(players)) = 3
    /\ \E i \in turnHolders : players[i].isSmallBlind /\ ~players[i].isDealer

\* the place of a phase in waiting -> preflop -> flop -> turn -> river ->
\* showdown -> ended
phaseOrder(p) ==
    CASE p = "waiting" -> 0 [] p = "preflop" -> 1 [] p = "flop" -> 2
      [] p = "turn" -> 3 [] p = "river" -> 4 [] p = "showdown" -> 5
      [] p = "ended" -> 6

\* C19: the phase only moves forward along waiting -> preflop -> flop -> turn
\* -> river -> showdown -> ended, back to waiting only from ended, and a hand
\* is started (a new preflop entered) only by a startHand called in phase
\* waiting: startHand never restarts a hand that is in progress.
C19_PhaseForwardStartFromWaiting ==
    [][/\ state'.phase # state.phase =>
              \/ phaseOrder(state'.phase) > phaseOrder(state.phase)
              \/ state.phase = "ended" /\ state'.phase = "waiting"
       /\ startedHand => state.phase = "waiting"]_vars

\* a player flagged as joined mid-hand sits the hand out: folded, no cards,
\* no bets, not on turn, eligible for no pot and not among the winners
joinersSitOut(g) ==
    \A i \in DOMAIN g.players :
        g.players[i].joinedMidGame =>
            /\ g.players[i].folded
            /\ g.players[i].cards = <<>>
            /\ g.players[i].bet = 0 /\ g.players[i].totalBet = 0
            /\ ~g.players[i].isTurn
            /\ \A k \in DOMAIN g.pots :
                   g.players[i].id \notin Range(g.pots[k].eligiblePlayers)
            /\ \A k \in DOMAIN g.winners :
                   g.winners[k].playerId # g.players[i].id

\* what addPlayer does in engine t, whatever id and stack is asked for: it
\* fails, changing nothing, iff the roster is full or the id is
\* seated; a player added while a hand is in progress is appended folded and
\* flagged, with the stack asked for
addPlayerContract(t) ==
    \A id \in PlayerIds, chips \in ChipChoices \cup OpenChips :
        \A r \in {addPlayer(t, createPlayer(id, chips))} :
            /\ r.ok <=> ~(\/ Len(t.state.players) >= t.settings.maxPlayers
                          \/ hasPlayer(t.state.players, id))
            /\ ~r.ok => r.this = t
            /\ r.ok =>
                   LET ps == r.this.state.players
                       p == ps[Len(ps)]
                   IN  /\ SubSeq(ps, 1, Len(ps) - 1) = t.state.players
                       /\ p.id = id /\ p.chips = chips
                       /\ t.state.phase # "waiting" =>
                              /\ p.joinedMidGame /\ p.folded
                              /\ r.this.state.pots = t.state.pots
                       /\ t.state.phase = "waiting" => ~p.joinedMidGame

\* C20: a player added while a hand is in progress is seated folded with no
\* cards and zero bets, flagged joined-mid-hand and eligible for no pot; for
\* the rest of that hand the player never holds the turn, is never a winner
\* and keeps the same chips; the next successful startHand clears the flag
\* and deals the player in (chips > 0, connected).  addPlayer fails without
\* changing state when the roster is full or the id is already seated.
C20_MidHandJoinerSitsOut ==
    [][/\ joinersSitOut(state')
       /\ lastCall'.op = "addPlayer" => addPlayerContract(This)
       /\ \A i \in DOMAIN state.players :
              state.players[i].joinedMidGame =>
                  /\ hasPlayer(state'.players, state.players[i].id)
                  /\ LET q == findPlayer(state'.players, state.players[i].id)
                     IN  IF startedHand
                         THEN /\ ~q.joinedMidGame
                              /\ (state.players[i].chips > 0
                                     /\ state.players[i].isConnected) =>
                                     ~q.folded /\ Len(q.cards) = 2
                         ELSE /\ q.joinedMidGame
                              /\ q.chips = state.players[i].chips]_vars

\* a hand has just been paid out at a showdown while a player who joined
\* during the hand sits at the table
C20_JoinerWatchesShowdown ==
    /\ justAccepted
    /\ phase = "ended"
    /\ Len(notFolded(players)) = 2
    /\ \E i \in DOMAIN players : players[i].joinedMidGame

\* the ids listed as eligible for some pot of g
listed(g) == UNION {Range(g.pots[k].eligiblePlayers) : k \in DOMAIN g.pots}

\* what removePlayer does in engine t, whatever id is named: for a seated id
\* it returns true, the roster is the old one without that player, no pot
\* lists the id and the pot amounts stay; for any other id it returns false
\* and changes nothing
removePlayerContract(t) ==
    \A id \in PlayerIds :
        \A r \in {removePlayer(t, id)} :
            /\ r.ok <=> hasPlayer(t.state.players, id)
            /\ ~r.ok => r.this = t
            /\ r.ok =>
                   /\ r.this.state.players
                          = SelectSeq(t.state.players, LAMBDA p : p.id # id)
                   /\ id \notin listed(r.this.state)
                   /\ listed(r.this.state) = listed(t.state) \ {id}
                   /\ totalPot(r.this.state.pots) = totalPot(t.state.pots)

\* C21: removePlayer(id) called in any phase deletes that player from the
\* roster and from every pot's eligibility list and returns true; for an id
\* that is not seated it returns false and changes nothing.  No pot lists a
\* seated player who is folded, and an id that is neither seated nor listed
\* (a removed player's) is not listed again while it is not seated.
C21_RemovedAndFoldedNotEligible ==
    [][/\ lastCall'.op = "removePlayer" => removePlayerContract(This)
       /\ \A i \in DOMAIN state'.players :
              state'.players[i].folded =>
                  state'.players[i].id \notin listed(state')
       /\ \A id \in PlayerIds :
              (/\ ~hasPlayer(state.players, id)
               /\ id \notin listed(state)
               /\ ~hasPlayer(state'.players, id)) => id \notin listed(state')]_vars

\* a player has just been removed during a betting round in which another
\* player, dealt in, has folded and a third is still listed for the pot
C21_RemovedDuringBetting ==
    /\ lastCall.op = "removePlayer" /\ lastCall.ok
    /\ phase \in InteractivePhases
    /\ \E i \in DOMAIN players : players[i].folded /\ players[i].cards # <<>>
    /\ listed(state) # {}

\* the amounts tried on tipPlayer: the tips of the table, a negative one and
\* one above every stack
TipsTried == TipAmounts \cup {-1, 2 * MaxChips + MaxGrant + 1}

\* the chips a tip of `amount` from fromId to toId moves to or from player p
tipDelta(p, fromId, toId, amount) ==
    (IF p.id = toId THEN amount ELSE 0) - (IF p.id = fromId THEN amount ELSE 0)

\* what tipPlayer does in engine t, whatever is asked for: it fails, changing
\* nothing, iff amount <= 0, a player is not seated or the tipper's stack is
\* below amount; otherwise the tipper is charged and the receiver credited by
\* amount, the stacks sum to what they did and nothing else changes
tipContract(t) ==
    \A fromId \in PlayerIds, toId \in PlayerIds, amount \in TipsTried :
        \A r \in {tipPlayer(t, fromId, toId, amount)} :
            LET ps == t.state.players
                refused == \/ amount <= 0
                           \/ ~hasPlayer(ps, fromId)
                           \/ ~hasPlayer(ps, toId)
                           \/ findPlayer(ps, fromId).chips < amount
            IN  /\ r.ok <=> ~refused
                /\ ~r.ok => r.this = t
                /\ r.ok =>
                       /\ r.this =
                              [t EXCEPT !.state.players =
                                  AsSeq([i \in DOMAIN ps |->
                                      [ps[i] EXCEPT !.chips =
                                          @ + tipDelta(ps[i], fromId, toId,
                                                       amount)]])]
                       /\ sumChips(r.this.state.players) = sumChips(ps)
                       /\ \A i \in DOMAIN ps :
                              r.this.state.players[i].chips >= 0

\* C22: tipPlayer(from, to, amount) is atomic: it fails, changing no balance
\* and nothing else, when amount <= 0, when either player is not seated or
\* when from's chips are less than amount; otherwise from's chips decrease by
\* amount and to's chips increase by amount together, the sum of all stacks
\* is unchanged and no field other than those two stacks changes.
C22_TipIsAtomic == tipContract(This)

\* a tip has just been accepted during a betting round and left a player who
\* is neither folded nor all-in without chips
C22_TippedStackAwayMidHand ==
    /\ lastCall.op = "tipPlayer" /\ lastCall.ok
    /\ phase \in InteractivePhases
    /\ \E i \in toAct(players) : players[i].chips = 0

\* C23: addChipsToAll(amount) with amount > 0 increases the chips of every
\* connected player by exactly amount, leaves the chips of disconnected
\* players as they were and raises settings.startingChips by amount, changing
\* nothing else; with amount <= 0 it changes neither a stack nor the
\* settings.
C23_GrantCreditsConnectedPlayers ==
    \A amount \in GrantAmounts \cup {MaxGrant + 1} :
        \A r \in {addChipsToAll(This, amount)} :
            /\ amount <= 0 => r = This
            /\ amount > 0 =>
                   /\ r = [This EXCEPT
                              !.state.players = r.state.players,
                              !.settings.startingChips = @ + amount]
                   /\ Len(r.state.players) = Len(players)
                   /\ \A i \in DOMAIN players :
                          r.state.players[i] =
                              [players[i] EXCEPT !.chips =
                                  IF players[i].isConnected THEN @ + amount
                                  ELSE @]

\* chips have just been granted during a betting round at a table where a
\* disconnected player sits next to a player who is all-in
C23_GrantedMidHand ==
    /\ lastCall.op = "addChipsToAll"
    /\ settings.startingChips > MaxChips
    /\ phase \in InteractivePhases
    /\ \E i \in DOMAIN players : ~players[i].isConnected
    /\ \E i \in DOMAIN players : players[i].isAllIn /\ players[i].chips > 0

\* the step is a resetForNextHand call
resetCall == lastCall'.op = "resetForNextHand"

\* the players of roster ps whose ids are in S, in the order of ps
seatedAmong(ps, S) == SelectSeq(ps, LAMBDA p : p.id \in S)

\* C24 as stated: resetForNextHand sets the phase to waiting and prunes
\* players with zero chips, except that a player who is still connected with
\* zero chips stays seated; players with chips > 0 are never removed.
C24_ConnectedBustedStays ==
    [][resetCall =>
          /\ state'.phase = "waiting"
          /\ \A i \in DOMAIN state.players :
                 LET p == state.players[i]
                 IN  hasPlayer(state'.players, p.id)
                         <=> (p.chips > 0 \/ p.isConnected)]_vars

\* C24 as amended: resetForNextHand sets the phase to waiting and prunes the
\* connected players with zero chips; a player with zero chips who is
\* disconnected stays seated and is not dealt into the next hand; players
\* with chips > 0 are never removed; the players who stay keep their order
\* and their fields, and nothing but the roster and the phase changes.
C24_ResetPrunesConnectedBusted ==
    [][resetCall =>
          /\ state'.phase = "waiting"
          /\ \A i \in DOMAIN state.players :
                 LET p == state.players[i]
                 IN  hasPlayer(state'.players, p.id)
                         <=> (p.chips > 0 \/ ~p.isConnected)
          /\ state'.players =
                 seatedAmong(state.players, Range(ids(state'.players)))
          /\ [state' EXCEPT !.players = state.players, !.phase = state.phase]
                 = state
          /\ UNCHANGED <<deck, settings>>
          /\ \A newDeck \in ShuffleOutcomes :
                 \A r \in {startHand([state |-> state', deck |-> deck',
                                      settings |-> settings'], newDeck)} :
                     r.ok => \A i \in DOMAIN r.this.state.players :
                                 LET q == r.this.state.players[i]
                                 IN  state'.players[i].chips = 0 =>
                                         q.folded /\ q.cards = <<>>]_vars

\* a hand has been reset: a connected player who lost every chip is gone, a
\* disconnected player without chips still sits next to a player with chips
C24_BustedPrunedDisconnectedKept ==
    /\ lastCall.op = "resetForNextHand"
    /\ Len(players) = MaxPlayers - 1
    /\ \E i \in DOMAIN players : players[i].chips = 0 /\ ~players[i].isConnected
    /\ \E i \in DOMAIN players : players[i].chips > 0

\* what handleTurnTimeout does in engine t, whoever is named: for the player
\* who holds the turn it returns what processAction(player, fold) returns,
\* which is an accepted fold: the player is folded, off the turn, listed for
\* no pot and recorded as the last actor; for anybody else it returns false
\* and changes nothing
timeoutContract(t) ==
    \A id \in PlayerIds :
        \A r \in {handleTurnTimeout(t, id)} :
            IF hasPlayer(t.state.players, id)
                   /\ findPlayer(t.state.players, id).isTurn
            THEN /\ r = processAction(t, id, "fold", NoAmount)
                 /\ r.ok
                 /\ LET q == findPlayer(r.this.state.players, id)
                    IN  /\ q.folded /\ ~q.isTurn
                        /\ q.chips = findPlayer(t.state.players, id).chips
                 /\ id \notin listed(r.this.state)
                 /\ r.this.state.lastAction =
                        <<[playerId |-> id, action |-> "fold",
                           amount |-> NoAmount, phase |-> t.state.phase]>>
            ELSE ~r.ok /\ r.this = t

AllCards == {[suit |-> s, rank |-> r] : s \in Range(SUITS), r \in Range(RANKS)}

\* dealing 52 times from deck d yields 52 pairwise distinct cards covering
\* AllCards and leaves a deck from which deal returns no card
dealsEveryCardOnce(d) ==
    \A m \in {dealMultiple(d, 52)} :
        /\ Len(m.cards) = 52
        /\ \A i, j \in DOMAIN m.cards : i # j => m.cards[i] # m.cards[j]
        /\ Range(m.cards) = AllCards
        /\ m.rest = <<>>
        /\ dealCard(m.rest) = <<>> /\ dealRest(m.rest) = <<>>

\* C26: a fresh or reset Deck, under every shuffle outcome, holds 52 cards
\* and dealing 52 times yields 52 pairwise distinct cards covering all
\* rank-suit pairs; each successful deal lowers `remaining` by exactly 1 and
\* takes the card returned off the deck; deal on an exhausted deck returns
\* no card and leaves remaining at 0; reset restores remaining to 52.
C26_DeckIntegrity ==
    /\ Len(deck) = 52 /\ dealsEveryCardOnce(deck)
    /\ [][/\ lastCall'.op = "reset" =>
                 Len(deck') = 52 /\ dealsEveryCardOnce(deck')
          /\ lastCall'.op = "deal" =>
                 IF deck = <<>>
                 THEN ~lastCall'.ok /\ deck' = <<>>
                 ELSE /\ lastCall'.ok
                      /\ Len(deck') = Len(deck) - 1
                      /\ dealCard(deck)[1] \notin Range(deck')
                      /\ Range(deck') \cup {dealCard(deck)[1]} = Range(deck)
          /\ lastCall'.op = "dealMultiple" =>
                 /\ lastCall'.ok => Len(deck) - Len(deck') \in DealCounts
                 /\ ~lastCall'.ok => deck' = <<>>
                 /\ Range(deck') \subseteq Range(deck)]_vars

\* deal has just been called on an exhausted deck
C26_DealtFromEmptyDeck ==
    /\ lastCall.op = "deal" /\ ~lastCall.ok
    /\ deck = <<>>

\* the hole cards of roster ps, player after player
RECURSIVE holeCards(_)
holeCards(ps) == IF ps = <<>> THEN <<>> ELSE Head(ps).cards \o holeCards(Tail(ps))

\* the players of roster ps who were dealt in
dealtIn(ps) == {i \in DOMAIN ps : ps[i].cards # <<>>}

\* cards burned before a board of n community cards: one before the flop, one
\* before the turn, one before the river
burnsFor(n) == IF n = 0 THEN 0 ELSE n - 2

\* C27: within one hand no card is dealt twice: after startHand every
\* dealt-in player holds exactly 2 hole cards and every other seated player
\* none, the hole cards, the community cards and the cards left in the deck
\* are pairwise distinct in every state of the hand, and exactly one card is
\* burned before each of the flop, the turn and the river, so that with 5
\* community cards out and n dealt-in players the deck holds 52 - 2n - 5 - 3
\* cards.
C27_NoCardTwiceThreeBurns ==
    (hands > 0 /\ phase # "waiting") =>
        LET out == holeCards(players) \o state.communityCards
            n == Cardinality(dealtIn(players))
        IN  /\ \A i \in DOMAIN players : Len(players[i].cards) \in {0, 2}
            /\ (lastCall.op = "startHand" /\ lastCall.ok) =>
                   \A i \in DOMAIN players :
                       players[i].cards # <<>> <=> ~players[i].folded
            /\ \A i, j \in DOMAIN out : i # j => out[i] # out[j]
            /\ Range(out) \cap Range(deck) = {}
            /\ Len(state.communityCards) \in {0, 3, 4, 5}
            /\ Len(deck) = 52 - 2 * n - Len(state.communityCards)
                              - burnsFor(Len(state.communityCards))

\* evaluateHand has been called on the cards in `deck`, and what it returned
evaluated == lastCall.op = "evaluateHand"
result == state.winners[1].hand

\* the 5-card arrays contained in the array cards (of distinct cards)
fiveOf(cards) ==
    {SelectSeq(cards, LAMBDA c : c \in T) :
        T \in {U \in SUBSET Range(cards) : Cardinality(U) = 5}}

\* C28: for every array S of 5, 6 or 7 distinct cards evaluateHand(S) is the
\* best 5-card hand contained in S: it compares >= 0 with evaluateHand(T)
\* for every 5-card T of S and = 0 with at least one, and the 5 cards
\* returned are cards of S that realise the reported category and kickers.
C28_BestFiveOfTheCards ==
    evaluated =>
        /\ \A T \in fiveOf(deck) :
               compareHands(result, evaluateHand(T)) >= 0
        /\ \E T \in fiveOf(deck) :
               compareHands(result, evaluateHand(T)) = 0
        /\ Len(result.cards) = 5
        /\ Range(result.cards) \subseteq Range(deck)
        /\ Cardinality(Range(result.cards)) = 5
        /\ \A own \in {evaluateHand(result.cards)} :
               own.rank = result.rank /\ own.kickers = result.kickers

\* a card of value v is among the cards; the value 1 is the Ace played low
hasValue(cards, v) == (IF v = 1 THEN 14 ELSE v) \in Range(cardValues(cards))

\* the top value of the highest run of 5 consecutive values among the cards,
\* A-2-3-4-5 being the run with top 5; 0 if there is no run
highestRun(cards) ==
    LET tops == {h \in 5..14 : \A k \in 0..4 : hasValue(cards, h - k)}
    IN  IF tops = {} THEN 0 ELSE CHOOSE h \in tops : \A g \in tops : g <= h

\* the highest run within one suit, 0 if no suit holds a run
highestSuitedRun(cards) ==
    LET tops == {highestRun(bySuitGet(cards, s)) : s \in Range(SUITS)}
    IN  CHOOSE h \in tops : \A g \in tops : g <= h

\* C29: straight and straight-flush detection reports the highest run of 5
\* consecutive distinct rank values present in the cards (within one suit
\* for a straight flush), A-2-3-4-5 counting as a 5-high straight; when the
\* cards also contain a higher run (2-3-4-5-6 together with an Ace) the
\* higher run's top rank is reported.
C29_HighestRunReported ==
    evaluated =>
        /\ getStraightHighCard(deck) = highestRun(deck)
        /\ getStraightFlushCards(deck).highCard = highestSuitedRun(deck)
        /\ result.rank = "straight" => result.kickers = <<highestRun(deck)>>
        /\ result.rank \in {"straight-flush", "royal-flush"} =>
               result.kickers = <<highestSuitedRun(deck)>>
        /\ highestSuitedRun(deck) # 0 <=>
               result.rank \in {"straight-flush", "royal-flush"}

\* the categories in the order of the claim, strongest first
Categories ==
    <<"royal-flush", "straight-flush", "four-of-a-kind", "full-house", "flush",
      "straight", "three-of-a-kind", "two-pair", "one-pair", "high-card">>

categoryPlace(rank) == CHOOSE i \in DOMAIN Categories : Categories[i] = rank

\* the 5 cards at these places of createDeck (hearts 2..A are 1..13, diamonds
\* 14..26, clubs 27..39, spades 40..52)
handAt(places) == [i \in 1..5 |-> createDeck[places[i]]]

\* for every category the hand with the lowest and the hand with the highest
\* kickers (the two royal flushes differ in the suit only)
ReferenceHands ==
    [rank \in Range(Categories) |->
        CASE rank = "royal-flush" ->
                 {handAt(<<9, 10, 11, 12, 13>>), handAt(<<48, 49, 50, 51, 52>>)}
          [] rank = "straight-flush" ->
                 {handAt(<<13, 1, 2, 3, 4>>), handAt(<<8, 9, 10, 11, 12>>)}
          [] rank = "four-of-a-kind" ->
                 {handAt(<<1, 14, 27, 40, 2>>), handAt(<<13, 26, 39, 52, 12>>)}
          [] rank = "full-house" ->
                 {handAt(<<1, 14, 27, 2, 15>>), handAt(<<13, 26, 39, 12, 25>>)}
          [] rank = "flush" ->
                 {handAt(<<1, 2, 3, 4, 6>>), handAt(<<13, 12, 11, 10, 8>>)}
          [] rank = "straight" ->
                 {handAt(<<13, 14, 2, 3, 4>>), handAt(<<22, 10, 11, 12, 13>>)}
          [] rank = "three-of-a-kind" ->
                 {handAt(<<1, 14, 27, 2, 16>>), handAt(<<13, 26, 39, 12, 24>>)}
          [] rank = "two-pair" ->
                 {handAt(<<1, 14, 2, 15, 29>>), handAt(<<13, 26, 12, 25, 37>>)}
          [] rank = "one-pair" ->
                 {handAt(<<1, 14, 2, 16, 30>>), handAt(<<13, 26, 12, 24, 36>>)}
          [] rank = "high-card" ->
                 {handAt(<<1, 15, 29, 4, 6>>), handAt(<<13, 25, 37, 10, 8>>)}]

\* each reference hand evaluates to the category it stands for
referencesCategorised ==
    \A rank \in Range(Categories) : \A h \in ReferenceHands[rank] :
        evaluateHand(h).rank = rank

ReferenceResults ==
    UNION {{evaluateHand(h) : h \in ReferenceHands[rank]} : rank \in Range(Categories)}

\* C30: the categories are strictly ordered royal-flush > straight-flush >
\* four-of-a-kind > full-house > flush > straight > three-of-a-kind > two-pair
\* > one-pair > high-card: the reference hands evaluate to their categories,
\* and an evaluated hand compared (either way round) with a reference hand of
\* another category wins exactly if its category comes first in that order,
\* whatever the kickers are
C30_CategoryDecidesFirst ==
    /\ referencesCategorised
    /\ evaluated =>
           /\ result.rank \in Range(Categories)
           /\ \A ref \in ReferenceResults :
                  /\ categoryPlace(result.rank) < categoryPlace(ref.rank) =>
                         compareHands(result, ref) > 0 /\ compareHands(ref, result) < 0
                  /\ categoryPlace(result.rank) > categoryPlace(ref.rank) =>
                         compareHands(result, ref) < 0 /\ compareHands(ref, result) > 0

\* a full house of Kings was evaluated; it loses to the reference four Twos,
\* whose kickers are all lower
C30_QuadTwosBeatKingsFull ==
    /\ evaluated
    /\ result.rank = "full-house"
    /\ \E ref \in ReferenceResults :
           /\ ref.rank = "four-of-a-kind"
           /\ \A i \in 1..2 : ref.kickers[i] < result.kickers[1]
           /\ compareHands(ref, result) > 0

\* further hands to compare with: the 5-card hands among two Twos, two Sevens
\* and three Kings (pairs, two pairs, three of a kind and full houses)
MiddleCards ==
    cardsOf({"2", "7"}, {"hearts", "spades"})
        \cup cardsOf({"K"}, {"hearts", "diamonds", "spades"})

ComparedResults ==
    ReferenceResults
        \cup {evaluateHand(inDeckOrder(S)) :
                 S \in {T \in SUBSET MiddleCards : Cardinality(T) = 5}}

sign(x) == IF x > 0 THEN 1 ELSE IF x < 0 THEN -1 ELSE 0

\* compareHands orders a no lower than b
notBelow(a, b) == compareHands(a, b) >= 0

\* the kicker lists of a and b are equal up to the first difference, where a's
\* value is the higher one
kickersAbove(a, b) ==
    \E i \in DOMAIN a.kickers \cap DOMAIN b.kickers :
        /\ a.kickers[i] > b.kickers[i]
        /\ \A j \in 1..(i - 1) : a.kickers[j] = b.kickers[j]

\* C31: compareHands over evaluated hands is a total preorder decided first by
\* category and then lexicographically by the kickers: compare(a, a) = 0, the
\* sign of compare(a, b) is the opposite of the sign of compare(b, a), compare
\* is transitive, and compare(a, b) = 0 exactly when a and b have the same
\* category and identical kicker lists
C31_CompareIsTotalPreorder ==
    evaluated =>
        /\ compareHands(result, result) = 0
        /\ \A b \in ComparedResults :
               /\ sign(compareHands(result, b)) = -sign(compareHands(b, result))
               /\ compareHands(result, b) = 0
                      <=> result.rank = b.rank /\ result.kickers = b.kickers
               /\ compareHands(result, b) > 0
                      <=> \/ HAND_RANK_VALUES(result.rank) > HAND_RANK_VALUES(b.rank)
                          \/ result.rank = b.rank /\ kickersAbove(result, b)
               /\ \A c \in ComparedResults :
                      /\ notBelow(result, b) /\ notBelow(b, c) => notBelow(result, c)
                      /\ notBelow(b, result) /\ notBelow(result, c) => notBelow(b, c)
                      /\ notBelow(b, c) /\ notBelow(c, result) => notBelow(b, result)

\* an evaluated hand loses to a hand of its own category with the same first
\* kicker: a later kicker decided
C31_LaterKickerDecides ==
    /\ evaluated
    /\ \E b \in ComparedResults :
           /\ b.rank = result.rank
           /\ b.kickers[1] = result.kickers[1]
           /\ compareHands(result, b) < 0

\* what processAction(playerId, action, amount) and startHand() do with
\* lastAction at the engine t
lastActionContract(t) ==
    /\ \A req \in PlayerIds \X Actions \X Amounts :
           \A r \in {processAction(t, req[1], req[2], req[3])} :
               IF r.ok
               THEN r.this.state.lastAction =
                        <<[playerId |-> req[1], action |-> req[2],
                           amount |-> req[3], phase |-> t.state.phase]>>
               ELSE r.this.state.lastAction = t.state.lastAction
    /\ \A newDeck \in ShuffleOutcomes :
           \A r \in {startHand(t, newDeck)} :
               IF r.ok THEN r.this.state.lastAction = <<>>
               ELSE r.this.state.lastAction = t.state.lastAction

\* C32: after every accepted processAction(p, a, amt) made in phase ph,
\* lastAction is (p, a, amt, ph) with ph the phase in which the action was
\* taken, also when the call advanced the phase or ended the hand; a rejected
\* action leaves lastAction as it was, and startHand clears it
C32_LastActionKeepsItsPhase ==
    /\ lastActionContract(This)
    /\ justAccepted => state.lastAction # <<>>
    /\ lastCall.op = "startHand" /\ lastCall.ok => state.lastAction = <<>>

\* a check on the flop was accepted and moved the hand on to the turn
C32_RecordedBeforeStreetChange ==
    /\ justAccepted
    /\ state.phase = "turn"
    /\ state.lastAction[1].phase = "flop"
    /\ state.lastAction[1].action = "check"

\* the hole cards held by the players other than playerId
foreignCards(g, playerId) ==
    UNION {Range(g.players[i].cards) :
               i \in {j \in DOMAIN g.players : g.players[j].id # playerId}}

\* the cards that occur anywhere in a view: in the players' entries and in
\* the hands of the winners
cardsShown(view) ==
    UNION ({Range(view.players[i].cards) : i \in DOMAIN view.players}
               \cup {Range(view.winners[k].hand.cards) : k \in DOMAIN view.winners})

\* the state g with the hole cards of the players other than playerId
\* replaced: turned round (way 1), by the top cards of the deck (way 2), by
\* the cards of the player seated before them (way 3)
otherHoleCards(g, d, playerId, way) ==
    LET n == Len(g.players)
        replaced(i) ==
            LET c == g.players[i].cards
            IN  IF g.players[i].id = playerId \/ Len(c) # 2 THEN c
                ELSE IF way = 1 THEN <<c[2], c[1]>>
                ELSE IF way = 2 THEN (IF Len(d) >= 2 THEN <<d[1], d[2]>> ELSE c)
                ELSE (IF Len(g.players[((i + n - 2) % n) + 1].cards) = 2
                      THEN g.players[((i + n - 2) % n) + 1].cards ELSE c)
    IN  [g EXCEPT !.players =
            AsSeq([i \in DOMAIN g.players |->
                      [g.players[i] EXCEPT !.cards = replaced(i)]])]

\* the entries of the players in the view of playerId: the own entry as it
\* is, of every other player all but the cards, and of these the number
masked(g, view, playerId) ==
    /\ Len(view.players) = Len(g.players)
    /\ \A i \in DOMAIN g.players :
           IF g.players[i].id = playerId
           THEN view.players[i] = g.players[i]
           ELSE /\ [view.players[i] EXCEPT !.cards = <<>>]
                       = [g.players[i] EXCEPT !.cards = <<>>]
                /\ Len(view.players[i].cards) = Len(g.players[i].cards)
                /\ \A k \in DOMAIN view.players[i].cards :
                       view.players[i].cards[k] \notin AllCards

viewContract(t, playerId) ==
    \A r \in {getStateForPlayer(t, playerId)} :
        /\ r.this = t
        /\ r.state = [t.state EXCEPT !.players = r.state.players]
        /\ t.state.phase # "showdown" =>
               /\ masked(t.state, r.state, playerId)
               /\ \A way \in 1..3 :
                      getStateForPlayer(
                          [t EXCEPT !.state =
                              otherHoleCards(t.state, t.deck, playerId, way)],
                          playerId).state = r.state

\* C33 as stated: outside showdown no hole card of another player occurs in
\* the state returned by getStateForPlayer(p)
C33_NoForeignCardInView ==
    phase # "showdown" =>
        \A playerId \in PlayerIds :
            cardsShown(getStateForPlayer(This, playerId).state)
                \cap foreignCards(state, playerId) = {}

\* C33, amended: in every phase other than showdown the players of the state
\* returned by getStateForPlayer(p) carry p's own cards unchanged and, for
\* every other player, only the number of their cards; the rest of the state
\* is returned as it is, so two engine states that differ only in other
\* players' hole cards give p the same view; the engine state is not
\* modified; until the hand has ended no hole card of another player occurs
\* anywhere in the view (the winners of a showdown carry their five cards)
C33_ViewMasksPlayersEntries ==
    \A playerId \in PlayerIds :
        /\ viewContract(This, playerId)
        /\ phase \in InteractivePhases =>
               cardsShown(getStateForPlayer(This, playerId).state)
                   \cap foreignCards(state, playerId) = {}

\* the hand has ended in a showdown and a winner's five cards, which the
\* views of all players carry, include a hole card of that winner
C33_WinnersHandInEveryView ==
    /\ phase = "ended"
    /\ \E k \in DOMAIN state.winners, i \in DOMAIN players, j \in DOMAIN players :
           /\ i # j
           /\ players[i].id = state.winners[k].playerId
           /\ Range(players[i].cards) \cap Range(state.winners[k].hand.cards) # {}
           /\ masked(state, getStateForPlayer(This, players[j].id).state, players[j].id)

\* the turn holders that have an action to take
ableTurnHolders ==
    {i \in turnHolders : getValidActions(state, players[i].id) # {}}

\* C34: every hand makes progress and terminates: in every state reachable
\* from a successful startHand whose phase is preflop, flop, turn or river
\* some player holds the turn and has a non-empty set of valid actions (so
\* that legal actions of the turn holders can take the hand to phase ended),
\* for every combination of stack sizes and blind sizes
C34_SomebodyCanAlwaysAct ==
    phase \in InteractivePhases => ableTurnHolders # {}

\* C35: during a hand the pot accounts for every chip bet: in every state
\* from just after startHand until settlement the sum of all pot amounts
\* equals the sum of totalBet over all players, those who have folded
\* included, also after the pots were recalculated at a street change with an
\* all-in player present
C35_PotHoldsEveryBet ==
    phase \in InteractivePhases =>
        totalPot(state.pots) = sumTotalBets(players)

\* the id of the player at the 0-based position index of g's roster, 0 when
\* the index is past the end of the roster
seatedAt(g, index) ==
    IF index + 1 \in DOMAIN g.players THEN g.players[index + 1].id ELSE 0

\* exactly one player of g holds the turn, and that player can act
oneActorOnTurn(g) ==
    /\ Cardinality({i \in DOMAIN g.players : g.players[i].isTurn}) = 1
    /\ \A i \in DOMAIN g.players :
           g.players[i].isTurn => ~g.players[i].folded /\ ~g.players[i].isAllIn

\* C36: removePlayer during preflop, flop, turn or river keeps the hand
\* playable: after a seated player was removed from a hand in which one
\* player held the turn, either the phase is ended or exactly one remaining
\* non-folded, non-all-in player holds the turn and the dealer index and the
\* turn index refer to the same players as before (as far as these stayed)
C36_RemovalKeepsHandPlayable ==
    [][(/\ lastCall'.op = "removePlayer" /\ lastCall'.ok
        /\ state.phase \in InteractivePhases
        /\ oneActorOnTurn(state)) =>
           \/ state'.phase = "ended"
           \/ /\ oneActorOnTurn(state')
              /\ hasPlayer(state'.players, seatedAt(state, state.dealerIndex)) =>
                     seatedAt(state', state'.dealerIndex)
                         = seatedAt(state, state.dealerIndex)
              /\ hasPlayer(state'.players, seatedAt(state, state.currentPlayerIndex)) =>
                     seatedAt(state', state'.currentPlayerIndex)
                         = seatedAt(state, state.currentPlayerIndex)]_vars

\* C37: chips credited or removed out of band during a hand (tipPlayer,
\* addChipsToAll) do not disturb turn handling: in every interactive phase a
\* player who is all-in has no valid action, does not hold the turn and is
\* not the player the turn index designates, a player on turn with a stack of
\* 0 has a legal action, and exactly one non-folded, non-all-in player holds
\* the turn
C37_GrantsLeaveTurnHandlingIntact ==
    phase \in InteractivePhases =>
        /\ \A i \in DOMAIN players :
               players[i].isAllIn =>
                   /\ ~players[i].isTurn
                   /\ getValidActions(state, players[i].id) = {}
                   /\ state.currentPlayerIndex + 1 # i
        /\ \A i \in turnHolders :
               players[i].chips = 0 => getValidActions(state, players[i].id) # {}
        /\ oneActorOnTurn(state)

\* C38: the legality prediction a non-host client computes from the
\* replicated GameState agrees with the engine: in every reachable state, for
\* the player who holds the turn, availableActions, callAmount, minRaise and
\* maxRaise equal the engine's getValidActions, getCallAmount, getMinRaise
\* and getMaxRaise for that player
C38_ClientPredictionAgrees ==
    \A i \in turnHolders :
        /\ availableActions(state, players[i].id) = getValidActions(state, players[i].id)
        /\ callAmount(state, players[i].id) = getCallAmount(state, players[i].id)
        /\ minRaise(state) = getMinRaise(state)
        /\ maxRaise(state, players[i].id) = getMaxRaise(state, players[i].id)

\* the player on turn faces a bet that the stack can call but not raise by
\* the minimum, though the stack alone is no smaller than the minimum raise
C38_StackCoversRaiseButNotCall ==
    \E i \in turnHolders :
        /\ "call" \in availableActions(state, players[i].id)
        /\ "raise" \notin availableActions(state, players[i].id)
        /\ players[i].chips >= minRaise(state)
        /\ callAmount(state, players[i].id) > 0

\* C39: after an accepted action that closes neither the street nor the
\* hand the turn passes to the next player in cyclic seat order after the
\* actor who is neither folded nor all-in: folded and all-in players are
\* skipped, no such player is skipped, and the actor does not act again
\* while another player who is neither folded nor all-in is there to act
C39_TurnPassesToNextAbleSeat ==
    [][(acceptedCall /\ state'.phase = state.phase) =>
          LET i == actorIndex
              after == state'.players
              n == Len(after)
          IN  /\ toAct(after) # {}
              /\ {k \in DOMAIN after : after[k].isTurn}
                     = {firstAfter(toAct(after), i - 1, n) + 1}
              /\ state'.currentPlayerIndex = firstAfter(toAct(after), i - 1, n)
              /\ toAct(after) \ {i} # {} => ~after[i].isTurn
              /\ \A k \in 1..(n - 1) :
                     after[((i - 1 + k) % n) + 1].isTurn =>
                         \A j \in 1..(k - 1) :
                             \/ after[((i - 1 + j) % n) + 1].folded
                             \/ after[((i - 1 + j) % n) + 1].isAllIn]_vars

\* an action was accepted, the street stays open, and the turn went past
\* the seat after the actor's, whose player is folded or all-in
C39_TurnSkippedASeat ==
    /\ justAccepted
    /\ phase \in InteractivePhases
    /\ state.lastAction[1].phase = phase
    /\ LET i == findIndex(players, state.lastAction[1].playerId) + 1
           n == Len(players)
           next == (i % n) + 1
       IN  /\ i # 0 /\ n >= 3
           /\ players[next].folded \/ players[next].isAllIn
           /\ players[((i + 1) % n) + 1].isTurn

\* C40: the minimum raise in force at the first action of the flop, the turn
\* and the river equals the big blind: a raise increment made on an earlier
\* street does not carry over to the next street; within a street the
\* minimum raise is never below the big blind and never decreases
C40_MinRaiseStartsAtBigBlind ==
    [][/\ (state'.phase \in {"flop", "turn", "river"} /\ state'.phase # state.phase) =>
              state'.minRaise = state'.bigBlind
       /\ state'.phase \in InteractivePhases => state'.minRaise >= state'.bigBlind
       /\ (state'.phase \in InteractivePhases /\ state'.phase = state.phase) =>
              state'.minRaise >= state.minRaise]_vars

====
